---------------------------- MODULE Spec2Model ----------------------------
(***************************************************************************)
(* The log-search task of pkg/apiserver/logsearch/task.go: one Task, the   *)
(* goroutine that executes run() on it, and the callers of Abort(); the    *)
(* Task of pkg/apiserver/logs/task.go in the same way (names l_...); and   *)
(* the registry of tasks, the Go map Tasks of package logs (names r_...).  *)
(*                                                                         *)
(* Every statement of run(), close(), clean(), done() and Abort() that     *)
(* reads or writes a field of the Task, the Store, the file system or the  *)
(* stream is one step; the goroutines interleave at step boundaries.       *)
(* The deferred calls of run() are kept on a stack and executed last-in    *)
(* first-out when run() returns.                                           *)
(***************************************************************************)
EXTENDS Integers, Sequences, FiniteSets, TLC

(***************************************************************************)
(* Bounds of the model.                                                    *)
(***************************************************************************)
\* The number of batches the stream delivers before it can only end or fail.
MaxBatches == 2

\* task.go:123 sets 500; the model keeps the constant's role with a small
\* value so that a stream of MaxBatches batches goes beyond the cap.
PreviewLogLinesLimit == 2

\* The goroutines that call Abort(), each once.
Aborters == {1, 2}

\* The goroutines that insert a new task into the registry, each the task of
\* its own id, and the status pollers that look an id up.
Creators == {1, 2}
Pollers == {3}

(***************************************************************************)
(* Values.                                                                 *)
(***************************************************************************)
StateQueued == "Queued"
StateRunning == "Running"
StateFinished == "Finished"
StateCanceled == "Canceled"
Terminal == {StateFinished, StateCanceled}

\* diagnosticspb.LogMessage values the stream can carry.
msgA == [Time |-> 0, Level |-> 2, Message |-> "a"]
msgB == [Time |-> 1001, Level |-> 3, Message |-> "b"]

\* The batches (res.Messages) one Recv() can return.
Batches == {<< >>, <<msgA>>, <<msgB, msgA>>}

\* diagnosticspb.LogLevel_name: a level without a name renders as "".
LogLevel_name(level) ==
    CASE level = 0 -> "UNKNOWN"
      [] level = 1 -> "Debug"
      [] level = 2 -> "Info"
      [] level = 3 -> "Warn"
      [] level = 4 -> "Trace"
      [] level = 5 -> "Critical"
      [] level = 6 -> "Error"
      [] OTHER -> ""

\* toLine: "[<time>] [<level name>] <message>\n", the time rendered from the
\* millisecond epoch field as seconds and milliseconds.
toLine(msg) ==
    [ts |-> [sec |-> msg.Time \div 1000, milli |-> msg.Time % 1000],
     level |-> LogLevel_name(msg.Level),
     text |-> msg.Message]

\* path.Join(logsSavePath, TaskGroupID, Component.zipFilename())
zipFilename == "ip-port.zip"
savedPathOf == <<"logs", "group", zipFilename>>
\* Component.logFilename()
logFilename == "tidb.log"

NoFile == [exists |-> FALSE]
NoPath == << >>

VARIABLES
    \* TaskModel
    State, Error, SavedPath, StartTime, StopTime,
    \* Task
    mu, cancel, doneCh,
    \* the goroutine of run(): position, deferred calls, locals
    pc, defers, previewLogLinesCount, res, sendCh,
    \* context, connection, stream
    ctxDone, connOpen, nRecv,
    \* file system and the zip writer over the file
    fsDir, fsFile, fOpen, zw,
    \* Store: task records and preview rows
    dbTasks, dbPreview,
    \* callers of Abort: position, what the task was when Abort was called,
    \* and the channel the caller receives from
    apc, callState, recvCh,
    \* history: messages received, times close() was entered and left
    received, closeEntered, closeLeft,
    \* package logs: the fields of its Task (l_zw is the field t.zw, l_writer
    \* tells whether t.writer is set)
    l_err, l_savedPath, l_cancel, l_zw, l_writer,
    \* package logs: the goroutine of run(ctx), its locals (zw is l_zipw), and
    \* whether it is panicking
    l_pc, l_defers, l_previewLogLinesCount, l_res, l_zipw, l_panic,
    \* package logs: context, connection, stream, file system, Store
    l_ctxDone, l_connOpen, l_nRecv, l_fsDir, l_fsFile, l_fOpen, l_dbTasks,
    l_dbPreview,
    \* package logs: callers of Abort, and history
    l_apc, l_callState, l_received, l_closeEntered, l_closeLeft,
    \* history: a Store call made for the task returned an error at a call
    \* site that does not read the result
    storeErr,
    \* the registry (Tasks, a Go map): its slots, the flag the runtime keeps
    \* while a goroutine writes the map, the goroutines that use the map, and
    \* whether the runtime has ended the process with a fatal error
    r_slots, r_writing, r_pc, r_slot, r_found, r_fatal,
    \* two logsearch tasks that run side by side (names s_...): the fields of
    \* each Task that decide where its archive lies and what becomes of it,
    \* and the files below logsSavePath
    s_tasks, s_fs,
    \* package matrix (names m_...): the Axis an operation is applied to, the
    \* call made on it with its arguments, and what the call returned
    m_axis, m_call, m_ret

modelVars == <<State, Error, SavedPath, StartTime, StopTime>>
taskVars == <<mu, cancel, doneCh>>
runVars == <<pc, defers, previewLogLinesCount, res, sendCh>>
netVars == <<ctxDone, connOpen, nRecv>>
fsVars == <<fsDir, fsFile, fOpen, zw>>
dbVars == <<dbTasks, dbPreview>>
abortVars == <<apc, callState, recvCh>>
histVars == <<received, closeEntered, closeLeft>>
searchVars ==
    <<modelVars, taskVars, runVars, netVars, fsVars, dbVars, abortVars,
      histVars>>

l_taskVars == <<l_err, l_savedPath, l_cancel, l_zw, l_writer>>
l_runVars == <<l_pc, l_defers, l_previewLogLinesCount, l_res, l_zipw, l_panic>>
l_netVars == <<l_ctxDone, l_connOpen, l_nRecv>>
l_fsVars == <<l_fsDir, l_fsFile, l_fOpen>>
l_dbVars == <<l_dbTasks, l_dbPreview>>
l_abortVars == <<l_apc, l_callState>>
l_histVars == <<l_received, l_closeEntered, l_closeLeft>>
logsVars ==
    <<l_taskVars, l_runVars, l_netVars, l_fsVars, l_dbVars, l_abortVars,
      l_histVars>>

regVars == <<r_slots, r_writing, r_pc, r_slot, r_found, r_fatal>>

sibVars == <<s_tasks, s_fs>>

axisVars == <<m_axis, m_call, m_ret>>

vars == <<searchVars, logsVars, storeErr, regVars, sibVars, axisVars>>

\* The TaskModel as handed to the Store.
TaskModel ==
    [State |-> State, Error |-> Error, SavedPath |-> SavedPath,
     StartTime |-> StartTime, StopTime |-> StopTime]

\* NewTask: every field but the identifiers holds its zero value.
NewTask ==
    /\ State = StateQueued
    /\ Error = ""
    /\ SavedPath = NoPath
    /\ StartTime = 0
    /\ StopTime = 0
    /\ mu = FALSE
    /\ cancel = FALSE
    /\ doneCh = 0

\* The state of a logsearch Task after NewTask and before `go task.run()`;
\* with on = FALSE the task is not part of the run.
SearchInit(on) ==
    /\ NewTask
    /\ pc = IF on THEN "idle" ELSE "off"
    /\ defers = << >>
    /\ previewLogLinesCount = 0
    /\ res = << >>
    /\ sendCh = 0
    /\ ctxDone = FALSE
    /\ connOpen = FALSE
    /\ nRecv = 0
    /\ fsDir = FALSE
    /\ fsFile = NoFile
    /\ fOpen = FALSE
    /\ zw = [open |-> FALSE, entries |-> << >>, buf |-> << >>]
    \* the caller may or may not have stored the Queued record
    /\ dbTasks \in IF on THEN {<< >>, <<TaskModel>>} ELSE {<< >>}
    /\ dbPreview = << >>
    /\ apc = [a \in Aborters |-> IF on THEN "idle" ELSE "off"]
    /\ callState = [a \in Aborters |-> "none"]
    /\ recvCh = [a \in Aborters |-> 0]
    /\ received = << >>
    /\ closeEntered = 0
    /\ closeLeft = 0

\* package logs, NewTask: err, cancel, zw, writer and savedPath hold their
\* zero values.
LogsNewTask ==
    /\ l_err = ""
    /\ l_savedPath = NoPath
    /\ l_cancel = FALSE
    /\ l_zw = "nil"
    /\ l_writer = FALSE

\* The state of a logs Task after NewTask and before `go task.run(ctx)`.
LogsInit(on) ==
    /\ LogsNewTask
    /\ l_pc = IF on THEN "idle" ELSE "off"
    /\ l_defers = << >>
    /\ l_previewLogLinesCount = 0
    /\ l_res = << >>
    /\ l_zipw = [open |-> FALSE, entries |-> << >>, buf |-> << >>]
    /\ l_panic = FALSE
    /\ l_ctxDone = FALSE
    /\ l_connOpen = FALSE
    /\ l_nRecv = 0
    /\ l_fsDir = FALSE
    /\ l_fsFile = NoFile
    /\ l_fOpen = FALSE
    \* the caller may or may not have stored the Queued record
    /\ l_dbTasks \in IF on
                       THEN {<< >>, <<[State |-> StateQueued, SavedPath |-> NoPath]>>}
                       ELSE {<< >>}
    /\ l_dbPreview = << >>
    /\ l_apc = [a \in Aborters |-> IF on THEN "idle" ELSE "off"]
    /\ l_callState = [a \in Aborters |-> "none"]
    /\ l_received = << >>
    /\ l_closeEntered = 0
    /\ l_closeLeft = 0

\* The registry, an empty map of as many slots as there are tasks to come,
\* and the goroutines about to use it.
RegistryOf(on) ==
    /\ r_slots = [i \in 1 .. Cardinality(Creators) |-> 0]
    /\ r_writing = FALSE
    /\ r_pc = [g \in Creators \cup Pollers |-> IF on THEN "idle" ELSE "off"]
    /\ r_slot = [g \in Creators |-> 0]
    /\ r_found = [g \in Pollers |-> "none"]
    /\ r_fatal = FALSE

(***************************************************************************)
(* Two tasks side by side.  NewTask takes any component and any group id,  *)
(* and run() places the archive of a task by its group and its component.  *)
(***************************************************************************)
\* The Tasks, each made by its own call of NewTask (its TaskID is its own).
SibTasks == {1, 2}

\* The group ids a caller passes to NewTask.
TaskGroupIDs == {"g1", "g2"}

\* The components a caller passes to NewTask.
Components ==
    {[IP |-> "10.0.0.1", Port |-> "20160"],
     [IP |-> "10.0.0.2", Port |-> "20160"]}

logsSavePath == "/tmp/dashboard-logs"

\* fmt.Sprintf("%s-%s.zip", c.IP, c.Port)
zipFilenameOf(c) == c.IP \o "-" \o c.Port \o ".zip"

\* path.Join(logsSavePath, t.TaskGroupID, t.Component.zipFilename())
savedPath(t) ==
    logsSavePath \o "/" \o t.TaskGroupID \o "/" \o zipFilenameOf(t.Component)

SibPaths ==
    {savedPath([TaskGroupID |-> g, Component |-> c]) :
        g \in TaskGroupIDs, c \in Components}

\* No file: the value of a name that names nothing, and of a Task's file
\* before os.Create.
Nothing == 0

\* The Tasks after NewTask, before `go task.run()`, and an empty directory
\* logsSavePath; with on = FALSE no such task is part of the run.
SiblingsOf(on) ==
    /\ s_tasks \in
          [SibTasks ->
              IF on
              THEN [Component : Components, TaskGroupID : TaskGroupIDs,
                    State : {StateQueued}, Error : {""}, SavedPath : {""},
                    f : {Nothing}, nWritten : {0}, pc : {"create"}]
              ELSE {[pc |-> "off"]}]
    /\ s_fs = [names |-> [p \in SibPaths |-> Nothing],
               data |-> [i \in SibTasks |-> << >>]]

(***************************************************************************)
(* Package matrix (keyvisual/matrix/axis.go): an Axis is a list of keys    *)
(* and columns of uint64 values, one value for each pair of neighbouring   *)
(* keys.  Keys are strings in the code, compared with each other only;     *)
(* here a key is its rank in the order of the keys.                        *)
(***************************************************************************)
\* The keys an Axis is built from are among 1 .. MaxKeys.
MaxKeys == 4

\* An Axis has up to MaxColumns columns.
MaxColumns == 2

\* uint64 is WordBits bits wide here: a value is in 0 .. Word - 1 and the
\* sums of the code are taken modulo Word.
WordBits == 2
Word == 2 ^ WordBits

\* The largest ratio and target an operation is called with.
MaxRatio == 3
MaxTarget == 3

\* The keys of S in their order.
SortedSeq(S) ==
    CHOOSE q \in [1 .. Cardinality(S) -> S] :
        \A i, j \in 1 .. Cardinality(S) : i < j => q[i] < q[j]

\* The key lists of the Axes: at least two keys, each below the next.
KeyLists ==
    {SortedSeq(S) : S \in {T \in SUBSET (1 .. MaxKeys) : Cardinality(T) >= 2}}

\* The Axes CreateAxis returns for these keys.
Axes ==
    UNION {[Keys : {ks},
            ValuesList : UNION {[1 .. n -> [1 .. Len(ks) - 1 -> 0 .. Word - 1]] :
                                   n \in 1 .. MaxColumns}] : ks \in KeyLists}

\* The Axis the operations are called on, no call made yet; with on = FALSE
\* no call on an Axis is part of the run.
AxisOf(on) ==
    /\ m_axis \in IF on THEN Axes ELSE {[Keys |-> << >>, ValuesList |-> << >>]}
    /\ m_call = [op |-> IF on THEN "none" ELSE "off"]
    /\ m_ret = [panic |-> ""]

\* One task is run: a Task of package logsearch or a Task of package logs.
Init ==
    \E package \in {"logsearch", "logs"} :
        /\ SearchInit(package = "logsearch")
        /\ LogsInit(package = "logs")
        /\ storeErr = FALSE
        /\ RegistryOf(FALSE)
        /\ SiblingsOf(FALSE)
        /\ AxisOf(FALSE)

(***************************************************************************)
(* The Store (dbClient).  Its code is not part of the sources at hand; the *)
(* operations are the record and preview operations the task calls, and    *)
(* run() and close() read no result of any of them.                        *)
(***************************************************************************)
\* dbClient.deleteTask: no record of the task is left.
deleteTask(db) == << >>

\* dbClient.createTask: one more record.
createTask(db, m) == Append(db, m)

\* dbClient.updateTask: the stored record becomes m (inserted when absent).
updateTask(db, m) == IF db = << >> THEN <<m>> ELSE [i \in DOMAIN db |-> m]

\* dbClient.newPreview: one more preview row.
newPreview(rows, msg) == Append(rows, msg)

\* dbClient.cleanPreview: no preview row of the task is left.
cleanPreview(rows) == << >>

(***************************************************************************)
(* run()                                                                   *)
(***************************************************************************)
\* `t.Error = err.Error(); return`: the deferred calls run next.
Fail(e) ==
    /\ Error' = e
    /\ pc' = "return"

\* The head of `for _, msg := range res.Messages` for the messages left.
RangeNext(rest) == IF rest = << >> THEN "flush" ELSE "write"

\* RunStart without `defer t.close()` registered before the first return.
RunStartNoDefer ==
    /\ pc = "idle"
    /\ defers' = << >>
    /\ cancel' = TRUE
    /\ pc' = "dial"
    /\ UNCHANGED <<modelVars, mu, doneCh, previewLogLinesCount, res, sendCh,
                   netVars, fsVars, dbVars, abortVars, histVars>>
    /\ UNCHANGED <<logsVars, storeErr, regVars, sibVars, axisVars>>

\* RunStart with the making of the sink as the first step of run().
RunStartSinkFirst ==
    /\ pc = "idle"
    /\ defers' = <<"close">>
    /\ cancel' = TRUE
    /\ pc' = "mkdir"
    /\ UNCHANGED <<modelVars, mu, doneCh, previewLogLinesCount, res, sendCh,
                   netVars, fsVars, dbVars, abortVars, histVars>>
    /\ UNCHANGED <<logsVars, storeErr, regVars, sibVars, axisVars>>

\* run() begins: defer t.close(); ctx, t.cancel = context.WithCancel(...)
RunStart ==
    /\ pc = "idle"
    /\ defers' = <<"close">>
    /\ cancel' = TRUE
    /\ pc' = "dial"
    /\ UNCHANGED <<modelVars, mu, doneCh, previewLogLinesCount, res, sendCh,
                   netVars, fsVars, dbVars, abortVars, histVars>>
    /\ UNCHANGED <<logsVars, storeErr, regVars, sibVars, axisVars>>

\* conn, err := grpc.Dial(...); defer conn.Close()
RunDial ==
    /\ pc = "dial"
    /\ \/ /\ Fail("dial")
          /\ UNCHANGED <<connOpen, defers>>
       \/ /\ connOpen' = TRUE
          /\ defers' = Append(defers, "conn.Close")
          /\ pc' = "search"
          /\ UNCHANGED Error
    /\ UNCHANGED <<State, SavedPath, StartTime, StopTime, taskVars,
                   previewLogLinesCount, res, sendCh, ctxDone, nRecv,
                   fsVars, dbVars, abortVars, histVars>>
    /\ UNCHANGED <<logsVars, storeErr, regVars, sibVars, axisVars>>

\* RunSearchLog without the return after the failure of SearchLog.
RunSearchLogNoReturn ==
    /\ pc = "search"
    /\ \/ /\ ctxDone
          /\ Error' = "context canceled"
       \/ /\ ~ctxDone
          /\ Error' = "search"
       \/ /\ ~ctxDone
          /\ UNCHANGED Error
    /\ pc' = "mkdir"
    /\ UNCHANGED <<State, SavedPath, StartTime, StopTime, taskVars, defers,
                   previewLogLinesCount, res, sendCh, netVars, fsVars, dbVars,
                   abortVars, histVars>>
    /\ UNCHANGED <<logsVars, storeErr, regVars, sibVars, axisVars>>

\* stream, err := cli.SearchLog(ctx, ...): fails when ctx is already cancelled.
RunSearchLog ==
    /\ pc = "search"
    /\ \/ /\ ctxDone
          /\ Fail("context canceled")
       \/ /\ ~ctxDone
          /\ Fail("search")
       \/ /\ ~ctxDone
          /\ pc' = "mkdir"
          /\ UNCHANGED Error
    /\ UNCHANGED <<State, SavedPath, StartTime, StopTime, taskVars, defers,
                   previewLogLinesCount, res, sendCh, netVars, fsVars, dbVars,
                   abortVars, histVars>>
    /\ UNCHANGED <<logsVars, storeErr, regVars, sibVars, axisVars>>

\* err = os.MkdirAll(dir, 0777)
RunMkdirAll ==
    /\ pc = "mkdir"
    /\ \/ /\ Fail("mkdir")
          /\ UNCHANGED fsDir
       \/ /\ fsDir' = TRUE
          /\ pc' = "create"
          /\ UNCHANGED Error
    /\ UNCHANGED <<State, SavedPath, StartTime, StopTime, taskVars, defers,
                   previewLogLinesCount, res, sendCh, netVars, fsFile, fOpen,
                   zw, dbVars, abortVars, histVars>>
    /\ UNCHANGED <<logsVars, storeErr, regVars, sibVars, axisVars>>

\* RunCreate with the two deferred calls registered in the other order.
RunCreateDefersSwapped ==
    /\ pc = "create"
    /\ \/ /\ Fail("create")
          /\ UNCHANGED <<fsFile, fOpen, zw, defers>>
       \/ /\ fsFile' = [exists |-> TRUE, entries |-> << >>, lines |-> << >>,
                        closed |-> FALSE]
          /\ fOpen' = TRUE
          /\ zw' = [open |-> TRUE, entries |-> << >>, buf |-> << >>]
          /\ defers' = defers \o <<"zw.Close", "f.Close">>
          /\ pc' = "entry"
          /\ UNCHANGED Error
    /\ UNCHANGED <<State, SavedPath, StartTime, StopTime, taskVars,
                   previewLogLinesCount, res, sendCh, netVars, fsDir, dbVars,
                   abortVars, histVars>>
    /\ UNCHANGED <<logsVars, storeErr, regVars, sibVars, axisVars>>

\* f, err := os.Create(savedPath); defer f.Close();
\* zw := zip.NewWriter(f); defer zw.Close()
RunCreate ==
    /\ pc = "create"
    /\ \/ /\ Fail("create")
          /\ UNCHANGED <<fsFile, fOpen, zw, defers>>
       \/ /\ fsFile' = [exists |-> TRUE, entries |-> << >>, lines |-> << >>,
                        closed |-> FALSE]
          /\ fOpen' = TRUE
          /\ zw' = [open |-> TRUE, entries |-> << >>, buf |-> << >>]
          /\ defers' = defers \o <<"f.Close", "zw.Close">>
          /\ pc' = "entry"
          /\ UNCHANGED Error
    /\ UNCHANGED <<State, SavedPath, StartTime, StopTime, taskVars,
                   previewLogLinesCount, res, sendCh, netVars, fsDir, dbVars,
                   abortVars, histVars>>
    /\ UNCHANGED <<logsVars, storeErr, regVars, sibVars, axisVars>>

\* RunZipCreate without the return after the failure of zw.Create.
RunZipCreateNoReturn ==
    /\ pc = "entry"
    /\ \/ /\ Error' = "entry"
          /\ pc' = "savedPath"
          /\ UNCHANGED zw
       \/ /\ zw' = [zw EXCEPT !.entries = Append(@, logFilename)]
          /\ pc' = "savedPath"
          /\ UNCHANGED Error
    /\ UNCHANGED <<State, SavedPath, StartTime, StopTime, taskVars, defers,
                   previewLogLinesCount, res, sendCh, netVars, fsDir, fsFile,
                   fOpen, dbVars, abortVars, histVars>>
    /\ UNCHANGED <<logsVars, storeErr, regVars, sibVars, axisVars>>

\* writer, err := zw.Create(t.Component.logFilename())
RunZipCreate ==
    /\ pc = "entry"
    /\ \/ /\ Fail("entry")
          /\ UNCHANGED zw
       \/ /\ zw' = [zw EXCEPT !.entries = Append(@, logFilename)]
          /\ pc' = "savedPath"
          /\ UNCHANGED Error
    /\ UNCHANGED <<State, SavedPath, StartTime, StopTime, taskVars, defers,
                   previewLogLinesCount, res, sendCh, netVars, fsDir, fsFile,
                   fOpen, dbVars, abortVars, histVars>>
    /\ UNCHANGED <<logsVars, storeErr, regVars, sibVars, axisVars>>

\* t.SavedPath = savedPath (the test of err that follows never fires: err is
\* nil after zw.Create succeeded)
RunSetSavedPath ==
    /\ pc = "savedPath"
    /\ SavedPath' = savedPathOf
    /\ pc' = "startTime"
    /\ UNCHANGED <<State, Error, StartTime, StopTime, taskVars, defers,
                   previewLogLinesCount, res, sendCh, netVars, fsVars, dbVars,
                   abortVars, histVars>>
    /\ UNCHANGED <<logsVars, storeErr, regVars, sibVars, axisVars>>

\* t.StartTime = time.Now().Unix()
RunSetStartTime ==
    /\ pc = "startTime"
    /\ StartTime' = 1
    /\ pc' = "lock"
    /\ UNCHANGED <<State, Error, SavedPath, StopTime, taskVars, defers,
                   previewLogLinesCount, res, sendCh, netVars, fsVars, dbVars,
                   abortVars, histVars>>
    /\ UNCHANGED <<logsVars, storeErr, regVars, sibVars, axisVars>>

\* RunLock without taking the mutex.
RunLockSkipped ==
    /\ pc \in {"lock", "closeLock"}
    /\ pc' = IF pc = "lock" THEN "setRunning" ELSE "closeSetState"
    /\ UNCHANGED <<modelVars, taskVars, defers, previewLogLinesCount,
                   res, sendCh, netVars, fsVars, dbVars, abortVars, histVars>>
    /\ UNCHANGED <<logsVars, storeErr, regVars, sibVars, axisVars>>

\* t.mu.Lock(), in run() and in close()
RunLock ==
    /\ pc \in {"lock", "closeLock"}
    /\ ~mu
    /\ mu' = TRUE
    /\ pc' = IF pc = "lock" THEN "setRunning" ELSE "closeSetState"
    /\ UNCHANGED <<modelVars, cancel, doneCh, defers, previewLogLinesCount,
                   res, sendCh, netVars, fsVars, dbVars, abortVars, histVars>>
    /\ UNCHANGED <<logsVars, storeErr, regVars, sibVars, axisVars>>

\* t.State = StateRunning
RunSetRunning ==
    /\ pc = "setRunning"
    /\ State' = StateRunning
    /\ pc' = "dbDelete"
    /\ UNCHANGED <<Error, SavedPath, StartTime, StopTime, taskVars, defers,
                   previewLogLinesCount, res, sendCh, netVars, fsVars, dbVars,
                   abortVars, histVars>>
    /\ UNCHANGED <<logsVars, storeErr, regVars, sibVars, axisVars>>

\* RunDeleteTask without the removal of the stale record.
RunDeleteTaskSkipped ==
    /\ pc = "dbDelete"
    /\ pc' = "dbCreate"
    /\ UNCHANGED <<modelVars, taskVars, defers, previewLogLinesCount, res,
                   sendCh, netVars, fsVars, dbVars, abortVars, histVars>>
    /\ UNCHANGED <<logsVars, storeErr, regVars, sibVars, axisVars>>

\* dbClient.deleteTask(t.TaskModel)
RunDeleteTask ==
    /\ pc = "dbDelete"
    /\ dbTasks' = deleteTask(dbTasks)
    /\ pc' = "dbCreate"
    /\ UNCHANGED <<modelVars, taskVars, defers, previewLogLinesCount, res,
                   sendCh, netVars, fsVars, dbPreview, abortVars, histVars>>
    /\ UNCHANGED <<logsVars, storeErr, regVars, sibVars, axisVars>>

\* dbClient.createTask(t.TaskModel)
RunCreateTask ==
    /\ pc = "dbCreate"
    /\ dbTasks' = createTask(dbTasks, TaskModel)
    /\ pc' = "unlock"
    /\ UNCHANGED <<modelVars, taskVars, defers, previewLogLinesCount, res,
                   sendCh, netVars, fsVars, dbPreview, abortVars, histVars>>
    /\ UNCHANGED <<logsVars, storeErr, regVars, sibVars, axisVars>>

\* t.mu.Unlock() (the test of err that follows never fires);
\* previewLogLinesCount := 0
RunUnlock ==
    /\ pc = "unlock"
    /\ mu' = FALSE
    /\ previewLogLinesCount' = 0
    /\ pc' = "recv"
    /\ UNCHANGED <<modelVars, cancel, doneCh, defers, res, sendCh, netVars,
                   fsVars, dbVars, abortVars, histVars>>
    /\ UNCHANGED <<logsVars, storeErr, regVars, sibVars, axisVars>>


\* RunRecv with a Recv() that the cancellation of ctx does not end.
RunRecvDeafToCancel ==
    /\ pc = "recv"
    /\ ~ctxDone
    /\ \/ /\ Fail("recv")
          /\ UNCHANGED <<res, nRecv, received>>
       \/ /\ pc' = "return"
          /\ UNCHANGED <<Error, res, nRecv, received>>
       \/ /\ nRecv < MaxBatches
          /\ \E batch \in Batches :
                /\ res' = batch
                /\ received' = received \o batch
                /\ pc' = RangeNext(batch)
          /\ nRecv' = nRecv + 1
          /\ UNCHANGED Error
    /\ UNCHANGED <<State, SavedPath, StartTime, StopTime, taskVars, defers,
                   previewLogLinesCount, sendCh, ctxDone, connOpen, fsVars,
                   dbVars, abortVars, closeEntered, closeLeft>>
    /\ UNCHANGED <<logsVars, storeErr, regVars, sibVars, axisVars>>

\* res, err := stream.Recv(): the next batch, io.EOF, or an error; once ctx is
\* cancelled it returns the cancellation error.
RunRecv ==
    /\ pc = "recv"
    /\ \/ /\ ctxDone
          /\ Fail("context canceled")
          /\ UNCHANGED <<res, nRecv, received>>
       \/ /\ ~ctxDone
          /\ Fail("recv")
          /\ UNCHANGED <<res, nRecv, received>>
       \/ /\ ~ctxDone
          \* io.EOF: return, t.Error is left as it is
          /\ pc' = "return"
          /\ UNCHANGED <<Error, res, nRecv, received>>
       \/ /\ ~ctxDone
          /\ nRecv < MaxBatches
          /\ \E batch \in Batches :
                /\ res' = batch
                /\ received' = received \o batch
                /\ pc' = RangeNext(batch)
          /\ nRecv' = nRecv + 1
          /\ UNCHANGED Error
    /\ UNCHANGED <<State, SavedPath, StartTime, StopTime, taskVars, defers,
                   previewLogLinesCount, sendCh, ctxDone, connOpen, fsVars,
                   dbVars, abortVars, closeEntered, closeLeft>>
    /\ UNCHANGED <<logsVars, storeErr, regVars, sibVars, axisVars>>

\* RunWrite with the write placed under the preview cap.
RunWriteUnderCap ==
    /\ pc = "write"
    /\ \/ /\ Fail("write")
          /\ UNCHANGED zw
       \/ /\ zw' = IF previewLogLinesCount < PreviewLogLinesLimit
                     THEN [zw EXCEPT !.buf = Append(@, toLine(Head(res)))]
                     ELSE zw
          /\ pc' = "preview"
          /\ UNCHANGED Error
    /\ UNCHANGED <<State, SavedPath, StartTime, StopTime, taskVars, defers,
                   previewLogLinesCount, res, sendCh, netVars, fsDir, fsFile,
                   fOpen, dbVars, abortVars, histVars>>
    /\ UNCHANGED <<logsVars, storeErr, regVars, sibVars, axisVars>>

\* line := toLine(msg); _, err := writer.Write([]byte(line))
RunWrite ==
    /\ pc = "write"
    /\ \/ /\ Fail("write")
          /\ UNCHANGED zw
       \/ /\ zw' = [zw EXCEPT !.buf = Append(@, toLine(Head(res)))]
          /\ pc' = "preview"
          /\ UNCHANGED Error
    /\ UNCHANGED <<State, SavedPath, StartTime, StopTime, taskVars, defers,
                   previewLogLinesCount, res, sendCh, netVars, fsDir, fsFile,
                   fOpen, dbVars, abortVars, histVars>>
    /\ UNCHANGED <<logsVars, storeErr, regVars, sibVars, axisVars>>

\* RunPreview without the test of the cap: every message gets a preview row.
RunPreviewNoCap ==
    /\ pc = "preview"
    /\ dbPreview' = newPreview(dbPreview, Head(res))
    /\ previewLogLinesCount' = previewLogLinesCount + 1
    /\ res' = Tail(res)
    /\ pc' = RangeNext(Tail(res))
    /\ UNCHANGED <<modelVars, taskVars, defers, sendCh, netVars, fsVars,
                   dbTasks, abortVars, histVars>>
    /\ UNCHANGED <<logsVars, storeErr, regVars, sibVars, axisVars>>

\* if previewLogLinesCount < PreviewLogLinesLimit { dbClient.newPreview(...);
\* previewLogLinesCount++ }, then the next message of the batch
RunPreview ==
    /\ pc = "preview"
    /\ IF previewLogLinesCount < PreviewLogLinesLimit
         THEN /\ dbPreview' = newPreview(dbPreview, Head(res))
              /\ previewLogLinesCount' = previewLogLinesCount + 1
         ELSE UNCHANGED <<dbPreview, previewLogLinesCount>>
    /\ res' = Tail(res)
    /\ pc' = RangeNext(Tail(res))
    /\ UNCHANGED <<modelVars, taskVars, defers, sendCh, netVars, fsVars,
                   dbTasks, abortVars, histVars>>
    /\ UNCHANGED <<logsVars, storeErr, regVars, sibVars, axisVars>>

\* err = zw.Flush(): what the writer buffered reaches the file
RunFlush ==
    /\ pc = "flush"
    /\ \/ /\ Fail("flush")
          /\ UNCHANGED <<zw, fsFile>>
       \/ /\ fsFile' = IF fsFile.exists
                         THEN [fsFile EXCEPT !.lines = @ \o zw.buf]
                         ELSE fsFile
          /\ zw' = [zw EXCEPT !.buf = << >>]
          /\ pc' = "recv"
          /\ UNCHANGED Error
    /\ UNCHANGED <<State, SavedPath, StartTime, StopTime, taskVars, defers,
                   previewLogLinesCount, res, sendCh, netVars, fsDir, fOpen,
                   dbVars, abortVars, histVars>>
    /\ UNCHANGED <<logsVars, storeErr, regVars, sibVars, axisVars>>

(***************************************************************************)
(* The deferred calls of run(), last registered first.                     *)
(***************************************************************************)
Top(stack) == stack[Len(stack)]
Pop(stack) == SubSeq(stack, 1, Len(stack) - 1)

\* defer zw.Close(): the buffered lines and the central directory (the
\* entries) are written to the file
RunDeferZwClose ==
    /\ pc = "return"
    /\ defers # << >>
    /\ Top(defers) = "zw.Close"
    /\ fsFile' = IF fsFile.exists
                   THEN [fsFile EXCEPT !.lines = @ \o zw.buf,
                                       !.entries = zw.entries,
                                       !.closed = TRUE]
                   ELSE fsFile
    /\ zw' = [zw EXCEPT !.open = FALSE, !.buf = << >>]
    /\ defers' = Pop(defers)
    /\ UNCHANGED <<modelVars, taskVars, pc, previewLogLinesCount, res, sendCh,
                   netVars, fsDir, fOpen, dbVars, abortVars, histVars>>
    /\ UNCHANGED <<logsVars, storeErr, regVars, sibVars, axisVars>>

\* defer f.Close()
RunDeferFileClose ==
    /\ pc = "return"
    /\ defers # << >>
    /\ Top(defers) = "f.Close"
    /\ fOpen' = FALSE
    /\ defers' = Pop(defers)
    /\ UNCHANGED <<modelVars, taskVars, pc, previewLogLinesCount, res, sendCh,
                   netVars, fsDir, fsFile, zw, dbVars, abortVars, histVars>>
    /\ UNCHANGED <<logsVars, storeErr, regVars, sibVars, axisVars>>

\* defer conn.Close()
RunDeferConnClose ==
    /\ pc = "return"
    /\ defers # << >>
    /\ Top(defers) = "conn.Close"
    /\ connOpen' = FALSE
    /\ defers' = Pop(defers)
    /\ UNCHANGED <<modelVars, taskVars, pc, previewLogLinesCount, res, sendCh,
                   ctxDone, nRecv, fsVars, dbVars, abortVars, histVars>>
    /\ UNCHANGED <<logsVars, storeErr, regVars, sibVars, axisVars>>

\* defer t.close(): close() is entered; it defers t.done() and tests t.Error
RunDeferClose ==
    /\ pc = "return"
    /\ defers # << >>
    /\ Top(defers) = "close"
    /\ defers' = Pop(defers)
    /\ closeEntered' = closeEntered + 1
    /\ pc' = IF Error # "" THEN "clean" ELSE "closeStopTime"
    /\ UNCHANGED <<modelVars, taskVars, previewLogLinesCount, res, sendCh,
                   netVars, fsVars, dbVars, abortVars, received, closeLeft>>
    /\ UNCHANGED <<logsVars, storeErr, regVars, sibVars, axisVars>>

\* run() has returned and no deferred call is left
RunExit ==
    /\ pc = "return"
    /\ defers = << >>
    /\ pc' = "exited"
    /\ UNCHANGED <<modelVars, taskVars, defers, previewLogLinesCount, res,
                   sendCh, netVars, fsVars, dbVars, abortVars, histVars>>
    /\ UNCHANGED <<logsVars, storeErr, regVars, sibVars, axisVars>>


(***************************************************************************)
(* close(), clean() and done()                                             *)
(***************************************************************************)
\* clean(): os.RemoveAll(t.SavedPath) when SavedPath is set; when it fails
\* clean() returns the error before dbClient.cleanPreview, and close() goes on
RunClean ==
    /\ pc = "clean"
    /\ \/ /\ SavedPath # NoPath
          /\ fsFile' = NoFile
          /\ pc' = "cleanPreview"
       \/ /\ SavedPath # NoPath
          /\ pc' = "closeStopTime"
          /\ UNCHANGED fsFile
       \/ /\ SavedPath = NoPath
          /\ pc' = "cleanPreview"
          /\ UNCHANGED fsFile
    /\ UNCHANGED <<modelVars, taskVars, defers, previewLogLinesCount, res,
                   sendCh, netVars, fsDir, fOpen, zw, dbVars, abortVars,
                   histVars>>
    /\ UNCHANGED <<logsVars, storeErr, regVars, sibVars, axisVars>>

\* clean(): dbClient.cleanPreview(t.TaskID)
RunCleanPreview ==
    /\ pc = "cleanPreview"
    /\ dbPreview' = cleanPreview(dbPreview)
    /\ pc' = "closeStopTime"
    /\ UNCHANGED <<modelVars, taskVars, defers, previewLogLinesCount, res,
                   sendCh, netVars, fsVars, dbTasks, abortVars, histVars>>
    /\ UNCHANGED <<logsVars, storeErr, regVars, sibVars, axisVars>>

\* RunCloseStopTime without the assignment of t.StopTime.
RunCloseStopTimeSkipped ==
    /\ pc = "closeStopTime"
    /\ pc' = "closeLock"
    /\ UNCHANGED <<modelVars, taskVars, defers,
                   previewLogLinesCount, res, sendCh, netVars, fsVars, dbVars,
                   abortVars, histVars>>
    /\ UNCHANGED <<logsVars, storeErr, regVars, sibVars, axisVars>>

\* close(): t.StopTime = time.Now().Unix(), in either branch
RunCloseStopTime ==
    /\ pc = "closeStopTime"
    /\ StopTime' = 1
    /\ pc' = "closeLock"
    /\ UNCHANGED <<State, Error, SavedPath, StartTime, taskVars, defers,
                   previewLogLinesCount, res, sendCh, netVars, fsVars, dbVars,
                   abortVars, histVars>>
    /\ UNCHANGED <<logsVars, storeErr, regVars, sibVars, axisVars>>

\* RunCloseSetState without the branch on t.Error.
RunCloseSetFinished ==
    /\ pc = "closeSetState"
    /\ State' = StateFinished
    /\ pc' = "closeUpdate"
    /\ UNCHANGED <<Error, SavedPath, StartTime, StopTime, taskVars, defers,
                   previewLogLinesCount, res, sendCh, netVars, fsVars, dbVars,
                   abortVars, histVars>>
    /\ UNCHANGED <<logsVars, storeErr, regVars, sibVars, axisVars>>

\* close(): t.State = StateCanceled in the branch of t.Error != "",
\* t.State = StateFinished in the other (t.Error is not written after the
\* branch was taken)
RunCloseSetState ==
    /\ pc = "closeSetState"
    /\ State' = IF Error # "" THEN StateCanceled ELSE StateFinished
    /\ pc' = "closeUpdate"
    /\ UNCHANGED <<Error, SavedPath, StartTime, StopTime, taskVars, defers,
                   previewLogLinesCount, res, sendCh, netVars, fsVars, dbVars,
                   abortVars, histVars>>
    /\ UNCHANGED <<logsVars, storeErr, regVars, sibVars, axisVars>>

\* close(): dbClient.updateTask(t.TaskModel)
RunCloseUpdateTask ==
    /\ pc = "closeUpdate"
    /\ dbTasks' = updateTask(dbTasks, TaskModel)
    /\ pc' = "closeUnlock"
    /\ UNCHANGED <<modelVars, taskVars, defers, previewLogLinesCount, res,
                   sendCh, netVars, fsVars, dbPreview, abortVars, histVars>>
    /\ UNCHANGED <<logsVars, storeErr, regVars, sibVars, axisVars>>

\* close(): t.mu.Unlock(); the body of close() is over, its deferred t.done()
\* runs next
RunCloseUnlock ==
    /\ pc = "closeUnlock"
    /\ mu' = FALSE
    /\ pc' = "done"
    /\ UNCHANGED <<modelVars, cancel, doneCh, defers, previewLogLinesCount,
                   res, sendCh, netVars, fsVars, dbVars, abortVars, histVars>>
    /\ UNCHANGED <<logsVars, storeErr, regVars, sibVars, axisVars>>

\* done(): if t.doneCh != nil
RunDoneTest ==
    /\ pc = "done"
    /\ IF doneCh # 0
         THEN /\ pc' = "doneEval"
              /\ UNCHANGED closeLeft
         ELSE /\ pc' = "return"
              /\ closeLeft' = closeLeft + 1
    /\ UNCHANGED <<modelVars, taskVars, defers, previewLogLinesCount, res,
                   sendCh, netVars, fsVars, dbVars, abortVars, received,
                   closeEntered>>
    /\ UNCHANGED <<logsVars, storeErr, regVars, sibVars, axisVars>>

\* done(): the channel operand of `t.doneCh <- struct{}{}` is read
RunDoneEval ==
    /\ pc = "doneEval"
    /\ sendCh' = doneCh
    /\ pc' = "doneSend"
    /\ UNCHANGED <<modelVars, taskVars, defers, previewLogLinesCount, res,
                   netVars, fsVars, dbVars, abortVars, histVars>>
    /\ UNCHANGED <<logsVars, storeErr, regVars, sibVars, axisVars>>

(***************************************************************************)
(* Abort(), called by goroutine a.  The channel made by a is named a.      *)
(***************************************************************************)
\* AbortTest deciding on the record's state instead of the handle.
AbortTestByState(a) ==
    /\ apc[a] = "idle"
    /\ callState' = [callState EXCEPT ![a] = State]
    /\ apc' = [apc EXCEPT ![a] = IF State = StateRunning THEN "makeCh" ELSE "err"]
    /\ UNCHANGED recvCh
    /\ UNCHANGED <<modelVars, taskVars, runVars, netVars, fsVars, dbVars,
                   histVars>>
    /\ UNCHANGED <<logsVars, storeErr, regVars, sibVars, axisVars>>

\* if t.cancel != nil { ... } return fmt.Errorf("task [%s] is not running")
AbortTest(a) ==
    /\ apc[a] = "idle"
    /\ callState' = [callState EXCEPT ![a] = State]
    /\ apc' = [apc EXCEPT ![a] = IF cancel THEN "makeCh" ELSE "err"]
    /\ UNCHANGED recvCh
    /\ UNCHANGED <<modelVars, taskVars, runVars, netVars, fsVars, dbVars,
                   histVars>>
    /\ UNCHANGED <<logsVars, storeErr, regVars, sibVars, axisVars>>

\* t.doneCh = make(chan struct{})
AbortMakeCh(a) ==
    /\ apc[a] = "makeCh"
    /\ doneCh' = a
    /\ apc' = [apc EXCEPT ![a] = "cancel"]
    /\ UNCHANGED <<modelVars, mu, cancel, runVars, netVars, fsVars, dbVars,
                   callState, recvCh, histVars>>
    /\ UNCHANGED <<logsVars, storeErr, regVars, sibVars, axisVars>>

\* AbortCancel returning nil without the receive from t.doneCh.
AbortCancelNoWait(a) ==
    /\ apc[a] = "cancel"
    /\ ctxDone' = TRUE
    /\ apc' = [apc EXCEPT ![a] = "nil"]
    /\ UNCHANGED <<modelVars, taskVars, runVars, connOpen, nRecv, fsVars,
                   dbVars, callState, recvCh, histVars>>
    /\ UNCHANGED <<logsVars, storeErr, regVars, sibVars, axisVars>>

\* t.cancel()
AbortCancel(a) ==
    /\ apc[a] = "cancel"
    /\ ctxDone' = TRUE
    /\ apc' = [apc EXCEPT ![a] = "recvEval"]
    /\ UNCHANGED <<modelVars, taskVars, runVars, connOpen, nRecv, fsVars,
                   dbVars, callState, recvCh, histVars>>
    /\ UNCHANGED <<logsVars, storeErr, regVars, sibVars, axisVars>>

\* <-t.doneCh: the channel operand is read, the caller then blocks on that
\* channel
AbortRecvEval(a) ==
    /\ apc[a] = "recvEval"
    /\ recvCh' = [recvCh EXCEPT ![a] = doneCh]
    /\ apc' = [apc EXCEPT ![a] = "wait"]
    /\ UNCHANGED <<modelVars, taskVars, runVars, netVars, fsVars, dbVars,
                   callState, histVars>>
    /\ UNCHANGED <<logsVars, storeErr, regVars, sibVars, axisVars>>

\* The unbuffered channel done() sends on is the one the caller a receives
\* from: Abort() returns nil; close() returns.
DoneRendezvous(a) ==
    /\ pc = "doneSend"
    /\ sendCh = recvCh[a]
    /\ apc[a] = "wait"
    /\ apc' = [apc EXCEPT ![a] = "nil"]
    /\ pc' = "return"
    /\ closeLeft' = closeLeft + 1
    /\ UNCHANGED <<modelVars, taskVars, defers, previewLogLinesCount, res,
                   sendCh, netVars, fsVars, dbVars, callState, recvCh, received,
                   closeEntered>>
    /\ UNCHANGED <<logsVars, storeErr, regVars, sibVars, axisVars>>

(***************************************************************************)
(* Package logs (pkg/apiserver/logs/task.go): the Task of the same role.   *)
(* Its Store (t.db) is not part of the sources at hand either.             *)
(***************************************************************************)
\* task.go:126 of package logs sets 100; scaled like PreviewLogLinesLimit.
LogsPreviewLogLinesLimit == 2

\* t.db.startTask: the record of the task is Running, with its saved path.
startTask(db, path) == <<[State |-> StateRunning, SavedPath |-> path]>>

\* t.db.cancelTask: the stored record becomes Canceled.
cancelTask(db) == [i \in DOMAIN db |-> [db[i] EXCEPT !.State = StateCanceled]]

\* t.db.finishTask: the stored record becomes Finished.
finishTask(db) == [i \in DOMAIN db |-> [db[i] EXCEPT !.State = StateFinished]]

\* t.db.insertLineToPreview: one more preview row.
insertLineToPreview(rows, msg) == Append(rows, msg)

\* `t.err = err; return`
LogsFail(e) ==
    /\ l_err' = e
    /\ l_pc' = "return"

\* run(ctx) begins: defer t.close(); ctx, t.cancel = context.WithCancel(ctx)
LogsRunStart ==
    /\ l_pc = "idle"
    /\ l_defers' = <<"close">>
    /\ l_cancel' = TRUE
    /\ l_pc' = "dial"
    /\ UNCHANGED <<l_err, l_savedPath, l_zw, l_writer, l_previewLogLinesCount,
                   l_res, l_zipw, l_panic, l_netVars, l_fsVars, l_dbVars,
                   l_abortVars, l_histVars>>
    /\ UNCHANGED <<searchVars, storeErr, regVars, sibVars, axisVars>>

\* conn, err := grpc.Dial(...); defer conn.Close()
LogsRunDial ==
    /\ l_pc = "dial"
    /\ \/ /\ LogsFail("dial")
          /\ UNCHANGED <<l_connOpen, l_defers>>
       \/ /\ l_connOpen' = TRUE
          /\ l_defers' = Append(l_defers, "conn.Close")
          /\ l_pc' = "search"
          /\ UNCHANGED l_err
    /\ UNCHANGED <<l_savedPath, l_cancel, l_zw, l_writer,
                   l_previewLogLinesCount, l_res, l_zipw, l_panic, l_ctxDone,
                   l_nRecv, l_fsVars, l_dbVars, l_abortVars, l_histVars>>
    /\ UNCHANGED <<searchVars, storeErr, regVars, sibVars, axisVars>>

\* stream, err := cli.SearchLog(ctx, t.req)
LogsRunSearchLog ==
    /\ l_pc = "search"
    /\ \/ /\ l_ctxDone
          /\ LogsFail("context canceled")
       \/ /\ ~l_ctxDone
          /\ LogsFail("search")
       \/ /\ ~l_ctxDone
          /\ l_pc' = "mkdir"
          /\ UNCHANGED l_err
    /\ UNCHANGED <<l_savedPath, l_cancel, l_zw, l_writer, l_defers,
                   l_previewLogLinesCount, l_res, l_zipw, l_panic, l_netVars,
                   l_fsVars, l_dbVars, l_abortVars, l_histVars>>
    /\ UNCHANGED <<searchVars, storeErr, regVars, sibVars, axisVars>>

\* CreateFile: err := os.MkdirAll(dir, 0777)
LogsCreateFileMkdirAll ==
    /\ l_pc = "mkdir"
    /\ \/ /\ LogsFail("mkdir")
          /\ UNCHANGED l_fsDir
       \/ /\ l_fsDir' = TRUE
          /\ l_pc' = "create"
          /\ UNCHANGED l_err
    /\ UNCHANGED <<l_savedPath, l_cancel, l_zw, l_writer, l_defers,
                   l_previewLogLinesCount, l_res, l_zipw, l_panic, l_netVars,
                   l_fsFile, l_fOpen, l_dbVars, l_abortVars, l_histVars>>
    /\ UNCHANGED <<searchVars, storeErr, regVars, sibVars, axisVars>>

\* CreateFile: f, err := os.Create(savedPath); zw := zip.NewWriter(f)
LogsCreateFileCreate ==
    /\ l_pc = "create"
    /\ \/ /\ LogsFail("create")
          /\ UNCHANGED <<l_fsFile, l_fOpen, l_zipw>>
       \/ /\ l_fsFile' = [exists |-> TRUE, entries |-> << >>, lines |-> << >>,
                          closed |-> FALSE]
          /\ l_fOpen' = TRUE
          /\ l_zipw' = [open |-> TRUE, entries |-> << >>, buf |-> << >>]
          /\ l_pc' = "entry"
          /\ UNCHANGED l_err
    /\ UNCHANGED <<l_savedPath, l_cancel, l_zw, l_writer, l_defers,
                   l_previewLogLinesCount, l_res, l_panic, l_netVars, l_fsDir,
                   l_dbVars, l_abortVars, l_histVars>>
    /\ UNCHANGED <<searchVars, storeErr, regVars, sibVars, axisVars>>

\* CreateFile: writer, err := zw.Create(t.logFilename()); on an error it
\* returns (nil, nil, err) and f stays open; else t.writer = writer;
\* t.savedPath = savedPath; return f, zw, nil (t.zw is not assigned), and
\* run() registers defer f.Close(); defer zw.Close()
LogsCreateFileZipCreate ==
    /\ l_pc = "entry"
    /\ \/ /\ LogsFail("entry")
          /\ UNCHANGED <<l_zipw, l_writer, l_savedPath, l_defers>>
       \/ /\ l_zipw' = [l_zipw EXCEPT !.entries = Append(@, logFilename)]
          /\ l_writer' = TRUE
          /\ l_savedPath' = savedPathOf
          /\ l_defers' = l_defers \o <<"f.Close", "zw.Close">>
          /\ l_pc' = "startTask"
          /\ UNCHANGED l_err
    /\ UNCHANGED <<l_cancel, l_zw, l_previewLogLinesCount, l_res, l_panic,
                   l_netVars, l_fsVars, l_dbVars, l_abortVars, l_histVars>>
    /\ UNCHANGED <<searchVars, storeErr, regVars, sibVars, axisVars>>

\* err = t.db.startTask(t.id, t.savedPath, t.taskGroupID);
\* previewLogLinesCount := 0
LogsRunStartTask ==
    /\ l_pc = "startTask"
    /\ \/ /\ LogsFail("startTask")
          /\ UNCHANGED <<l_dbTasks, l_previewLogLinesCount>>
       \/ /\ l_dbTasks' = startTask(l_dbTasks, l_savedPath)
          /\ l_previewLogLinesCount' = 0
          /\ l_pc' = "recv"
          /\ UNCHANGED l_err
    /\ UNCHANGED <<l_savedPath, l_cancel, l_zw, l_writer, l_defers, l_res,
                   l_zipw, l_panic, l_netVars, l_fsVars, l_dbPreview,
                   l_abortVars, l_histVars>>
    /\ UNCHANGED <<searchVars, storeErr, regVars, sibVars, axisVars>>

\* res, err := stream.Recv()
LogsRunRecv ==
    /\ l_pc = "recv"
    /\ \/ /\ l_ctxDone
          /\ LogsFail("context canceled")
          /\ UNCHANGED <<l_res, l_nRecv, l_received>>
       \/ /\ ~l_ctxDone
          /\ LogsFail("recv")
          /\ UNCHANGED <<l_res, l_nRecv, l_received>>
       \/ /\ ~l_ctxDone
          \* io.EOF
          /\ l_pc' = "return"
          /\ UNCHANGED <<l_err, l_res, l_nRecv, l_received>>
       \/ /\ ~l_ctxDone
          /\ l_nRecv < MaxBatches
          /\ \E batch \in Batches :
                /\ l_res' = batch
                /\ l_received' = l_received \o batch
                /\ l_pc' = RangeNext(batch)
          /\ l_nRecv' = l_nRecv + 1
          /\ UNCHANGED l_err
    /\ UNCHANGED <<l_savedPath, l_cancel, l_zw, l_writer, l_defers,
                   l_previewLogLinesCount, l_zipw, l_panic, l_ctxDone,
                   l_connOpen, l_fsVars, l_dbVars, l_abortVars,
                   l_closeEntered, l_closeLeft>>
    /\ UNCHANGED <<searchVars, storeErr, regVars, sibVars, axisVars>>

\* line := toLine(msg); _, err := t.writer.Write([]byte(line))
LogsRunWrite ==
    /\ l_pc = "write"
    /\ l_writer
    /\ \/ /\ LogsFail("write")
          /\ UNCHANGED l_zipw
       \/ /\ l_zipw' = [l_zipw EXCEPT !.buf = Append(@, toLine(Head(l_res)))]
          /\ l_pc' = "preview"
          /\ UNCHANGED l_err
    /\ UNCHANGED <<l_savedPath, l_cancel, l_zw, l_writer, l_defers,
                   l_previewLogLinesCount, l_res, l_panic, l_netVars, l_fsVars,
                   l_dbVars, l_abortVars, l_histVars>>
    /\ UNCHANGED <<searchVars, storeErr, regVars, sibVars, axisVars>>

\* if previewLogLinesCount < PreviewLogLinesLimit {
\*   err = t.db.insertLineToPreview(t.id, msg); on an error t.err = err; return
\*   previewLogLinesCount++ }
LogsRunPreview ==
    /\ l_pc = "preview"
    /\ \/ /\ l_previewLogLinesCount < LogsPreviewLogLinesLimit
          /\ LogsFail("insertLineToPreview")
          /\ UNCHANGED <<l_dbPreview, l_previewLogLinesCount, l_res>>
       \/ /\ l_previewLogLinesCount < LogsPreviewLogLinesLimit
          /\ l_dbPreview' = insertLineToPreview(l_dbPreview, Head(l_res))
          /\ l_previewLogLinesCount' = l_previewLogLinesCount + 1
          /\ l_res' = Tail(l_res)
          /\ l_pc' = RangeNext(Tail(l_res))
          /\ UNCHANGED l_err
       \/ /\ l_previewLogLinesCount >= LogsPreviewLogLinesLimit
          /\ l_res' = Tail(l_res)
          /\ l_pc' = RangeNext(Tail(l_res))
          /\ UNCHANGED <<l_err, l_dbPreview, l_previewLogLinesCount>>
    /\ UNCHANGED <<l_savedPath, l_cancel, l_zw, l_writer, l_defers, l_zipw,
                   l_panic, l_netVars, l_fsVars, l_dbTasks, l_abortVars,
                   l_histVars>>
    /\ UNCHANGED <<searchVars, storeErr, regVars, sibVars, axisVars>>

\* err = t.zw.Flush(): t.zw is the field, which no statement assigns; the call
\* on the nil *zip.Writer panics, and the deferred calls of run() run
LogsRunFlush ==
    /\ l_pc = "flush"
    /\ IF l_zw = "nil"
         THEN /\ l_panic' = TRUE
              /\ l_pc' = "return"
              /\ UNCHANGED <<l_err, l_zipw, l_fsFile>>
         ELSE /\ UNCHANGED l_panic
              /\ \/ /\ LogsFail("flush")
                    /\ UNCHANGED <<l_zipw, l_fsFile>>
                 \/ /\ l_fsFile' = IF l_fsFile.exists
                                     THEN [l_fsFile EXCEPT !.lines = @ \o l_zipw.buf]
                                     ELSE l_fsFile
                    /\ l_zipw' = [l_zipw EXCEPT !.buf = << >>]
                    /\ l_pc' = "recv"
                    /\ UNCHANGED l_err
    /\ UNCHANGED <<l_savedPath, l_cancel, l_zw, l_writer, l_defers,
                   l_previewLogLinesCount, l_res, l_netVars, l_fsDir, l_fOpen,
                   l_dbVars, l_abortVars, l_histVars>>
    /\ UNCHANGED <<searchVars, storeErr, regVars, sibVars, axisVars>>

\* defer zw.Close() (the local zw returned by CreateFile)
LogsRunDeferZwClose ==
    /\ l_pc = "return"
    /\ l_defers # << >>
    /\ Top(l_defers) = "zw.Close"
    /\ l_fsFile' = IF l_fsFile.exists
                     THEN [l_fsFile EXCEPT !.lines = @ \o l_zipw.buf,
                                           !.entries = l_zipw.entries,
                                           !.closed = TRUE]
                     ELSE l_fsFile
    /\ l_zipw' = [l_zipw EXCEPT !.open = FALSE, !.buf = << >>]
    /\ l_defers' = Pop(l_defers)
    /\ UNCHANGED <<l_taskVars, l_pc, l_previewLogLinesCount, l_res, l_panic,
                   l_netVars, l_fsDir, l_fOpen, l_dbVars, l_abortVars,
                   l_histVars>>
    /\ UNCHANGED <<searchVars, storeErr, regVars, sibVars, axisVars>>

\* defer f.Close()
LogsRunDeferFileClose ==
    /\ l_pc = "return"
    /\ l_defers # << >>
    /\ Top(l_defers) = "f.Close"
    /\ l_fOpen' = FALSE
    /\ l_defers' = Pop(l_defers)
    /\ UNCHANGED <<l_taskVars, l_pc, l_previewLogLinesCount, l_res, l_zipw,
                   l_panic, l_netVars, l_fsDir, l_fsFile, l_dbVars,
                   l_abortVars, l_histVars>>
    /\ UNCHANGED <<searchVars, storeErr, regVars, sibVars, axisVars>>

\* defer conn.Close()
LogsRunDeferConnClose ==
    /\ l_pc = "return"
    /\ l_defers # << >>
    /\ Top(l_defers) = "conn.Close"
    /\ l_connOpen' = FALSE
    /\ l_defers' = Pop(l_defers)
    /\ UNCHANGED <<l_taskVars, l_pc, l_previewLogLinesCount, l_res, l_zipw,
                   l_panic, l_ctxDone, l_nRecv, l_fsVars, l_dbVars,
                   l_abortVars, l_histVars>>
    /\ UNCHANGED <<searchVars, storeErr, regVars, sibVars, axisVars>>

\* defer t.close(): close() is entered and tests t.err
LogsRunDeferClose ==
    /\ l_pc = "return"
    /\ l_defers # << >>
    /\ Top(l_defers) = "close"
    /\ l_defers' = Pop(l_defers)
    /\ l_closeEntered' = l_closeEntered + 1
    /\ l_pc' = IF l_err # "" THEN "removeAll" ELSE "finishTask"
    /\ UNCHANGED <<l_taskVars, l_previewLogLinesCount, l_res, l_zipw, l_panic,
                   l_netVars, l_fsVars, l_dbVars, l_abortVars, l_received,
                   l_closeLeft>>
    /\ UNCHANGED <<searchVars, storeErr, regVars, sibVars, axisVars>>

\* close(): os.RemoveAll(t.savedPath), its result dropped; the empty path
\* removes nothing
LogsCloseRemoveAll ==
    /\ l_pc = "removeAll"
    /\ \/ /\ l_savedPath # NoPath
          /\ l_fsFile' = NoFile
       \/ /\ l_savedPath # NoPath
          /\ UNCHANGED l_fsFile
       \/ /\ l_savedPath = NoPath
          /\ UNCHANGED l_fsFile
    /\ l_pc' = "cancelTask"
    /\ UNCHANGED <<l_taskVars, l_defers, l_previewLogLinesCount, l_res, l_zipw,
                   l_panic, l_netVars, l_fsDir, l_fOpen, l_dbVars, l_abortVars,
                   l_histVars>>
    /\ UNCHANGED <<searchVars, storeErr, regVars, sibVars, axisVars>>

\* close(): t.db.cancelTask(t.id); return
LogsCloseCancelTask ==
    /\ l_pc = "cancelTask"
    /\ l_dbTasks' = cancelTask(l_dbTasks)
    /\ l_closeLeft' = l_closeLeft + 1
    /\ l_pc' = "return"
    /\ UNCHANGED <<l_taskVars, l_defers, l_previewLogLinesCount, l_res, l_zipw,
                   l_panic, l_netVars, l_fsVars, l_dbPreview, l_abortVars,
                   l_received, l_closeEntered>>
    /\ UNCHANGED <<searchVars, storeErr, regVars, sibVars, axisVars>>

\* close(): t.db.finishTask(t.id)
LogsCloseFinishTask ==
    /\ l_pc = "finishTask"
    /\ l_dbTasks' = finishTask(l_dbTasks)
    /\ l_closeLeft' = l_closeLeft + 1
    /\ l_pc' = "return"
    /\ UNCHANGED <<l_taskVars, l_defers, l_previewLogLinesCount, l_res, l_zipw,
                   l_panic, l_netVars, l_fsVars, l_dbPreview, l_abortVars,
                   l_received, l_closeEntered>>
    /\ UNCHANGED <<searchVars, storeErr, regVars, sibVars, axisVars>>

\* run() has returned and no deferred call is left; a panic that nothing
\* recovered ends the process
LogsRunExit ==
    /\ l_pc = "return"
    /\ l_defers = << >>
    /\ l_pc' = IF l_panic THEN "crashed" ELSE "exited"
    /\ UNCHANGED <<l_taskVars, l_defers, l_previewLogLinesCount, l_res, l_zipw,
                   l_panic, l_netVars, l_fsVars, l_dbVars, l_abortVars,
                   l_histVars>>
    /\ UNCHANGED <<searchVars, storeErr, regVars, sibVars, axisVars>>

\* Abort(): if t.cancel != nil { ... } return TaskNotRunningError{t.id}
LogsAbortTest(a) ==
    /\ l_apc[a] = "idle"
    /\ l_pc # "crashed"
    /\ l_callState' = [l_callState EXCEPT ![a] =
                          IF l_dbTasks = << >> THEN "none"
                          ELSE l_dbTasks[Len(l_dbTasks)].State]
    /\ l_apc' = [l_apc EXCEPT ![a] = IF l_cancel THEN "cancel" ELSE "err"]
    /\ UNCHANGED <<l_taskVars, l_runVars, l_netVars, l_fsVars, l_dbVars,
                   l_histVars>>
    /\ UNCHANGED <<searchVars, storeErr, regVars, sibVars, axisVars>>

\* Abort(): t.cancel(); return nil
LogsAbortCancel(a) ==
    /\ l_apc[a] = "cancel"
    /\ l_pc # "crashed"
    /\ l_ctxDone' = TRUE
    /\ l_apc' = [l_apc EXCEPT ![a] = "nil"]
    /\ UNCHANGED <<l_taskVars, l_runVars, l_connOpen, l_nRecv, l_fsVars,
                   l_dbVars, l_callState, l_histVars>>
    /\ UNCHANGED <<searchVars, storeErr, regVars, sibVars, axisVars>>

(***************************************************************************)
(* Store calls that fail.  A failed call changes nothing in the Store; the *)
(* call sites below are the ones where run() and close() do not read what  *)
(* the call returns, so the statement after the call runs as after a       *)
(* successful call.                                                        *)
(***************************************************************************)
\* dbClient.deleteTask(t.TaskModel) fails
RunDeleteTaskFails ==
    /\ pc = "dbDelete"
    /\ storeErr' = TRUE
    /\ pc' = "dbCreate"
    /\ UNCHANGED <<modelVars, taskVars, defers, previewLogLinesCount, res,
                   sendCh, netVars, fsVars, dbVars, abortVars, histVars>>
    /\ UNCHANGED <<logsVars, regVars, sibVars, axisVars>>

\* dbClient.createTask(t.TaskModel) fails
RunCreateTaskFails ==
    /\ pc = "dbCreate"
    /\ storeErr' = TRUE
    /\ pc' = "unlock"
    /\ UNCHANGED <<modelVars, taskVars, defers, previewLogLinesCount, res,
                   sendCh, netVars, fsVars, dbVars, abortVars, histVars>>
    /\ UNCHANGED <<logsVars, regVars, sibVars, axisVars>>

\* dbClient.newPreview(t.TaskID, msg) fails; previewLogLinesCount++ follows
RunPreviewFails ==
    /\ pc = "preview"
    /\ previewLogLinesCount < PreviewLogLinesLimit
    /\ storeErr' = TRUE
    /\ previewLogLinesCount' = previewLogLinesCount + 1
    /\ res' = Tail(res)
    /\ pc' = RangeNext(Tail(res))
    /\ UNCHANGED <<modelVars, taskVars, defers, sendCh, netVars, fsVars,
                   dbVars, abortVars, histVars>>
    /\ UNCHANGED <<logsVars, regVars, sibVars, axisVars>>

\* clean(): dbClient.cleanPreview(t.TaskID) fails
RunCleanPreviewFails ==
    /\ pc = "cleanPreview"
    /\ storeErr' = TRUE
    /\ pc' = "closeStopTime"
    /\ UNCHANGED <<modelVars, taskVars, defers, previewLogLinesCount, res,
                   sendCh, netVars, fsVars, dbVars, abortVars, histVars>>
    /\ UNCHANGED <<logsVars, regVars, sibVars, axisVars>>

\* close(): dbClient.updateTask(t.TaskModel) fails
RunCloseUpdateTaskFails ==
    /\ pc = "closeUpdate"
    /\ storeErr' = TRUE
    /\ pc' = "closeUnlock"
    /\ UNCHANGED <<modelVars, taskVars, defers, previewLogLinesCount, res,
                   sendCh, netVars, fsVars, dbVars, abortVars, histVars>>
    /\ UNCHANGED <<logsVars, regVars, sibVars, axisVars>>

\* package logs, close(): t.db.cancelTask(t.id) fails
LogsCloseCancelTaskFails ==
    /\ l_pc = "cancelTask"
    /\ storeErr' = TRUE
    /\ l_closeLeft' = l_closeLeft + 1
    /\ l_pc' = "return"
    /\ UNCHANGED <<l_taskVars, l_defers, l_previewLogLinesCount, l_res, l_zipw,
                   l_panic, l_netVars, l_fsVars, l_dbVars, l_abortVars,
                   l_received, l_closeEntered>>
    /\ UNCHANGED <<searchVars, regVars, sibVars, axisVars>>

\* package logs, close(): t.db.finishTask(t.id) fails
LogsCloseFinishTaskFails ==
    /\ l_pc = "finishTask"
    /\ storeErr' = TRUE
    /\ l_closeLeft' = l_closeLeft + 1
    /\ l_pc' = "return"
    /\ UNCHANGED <<l_taskVars, l_defers, l_previewLogLinesCount, l_res, l_zipw,
                   l_panic, l_netVars, l_fsVars, l_dbVars, l_abortVars,
                   l_received, l_closeEntered>>
    /\ UNCHANGED <<searchVars, regVars, sibVars, axisVars>>

(***************************************************************************)
(* The registry: `type Tasks map[string]*Task` (package logs), a Go map    *)
(* with no lock of its own.  A task is inserted under its id when it is    *)
(* created and looked up by status pollers; nothing is removed.  The steps *)
(* are those of an assignment to and an access of a Go map: the runtime    *)
(* keeps a flag while a goroutine writes, tests it on entry, and ends the  *)
(* process with a fatal error when it finds a concurrent use; a concurrent *)
(* use it does not find lets two writers store into the same free slot.    *)
(***************************************************************************)
\* The first free slot of the map.
FreeSlot == CHOOSE i \in DOMAIN r_slots :
                /\ r_slots[i] = 0
                /\ \A j \in DOMAIN r_slots : r_slots[j] = 0 => i <= j

\* tasks[id] = task begins: "concurrent map writes" when the flag is set
RegInsertCheck(c) ==
    /\ ~r_fatal
    /\ r_pc[c] = "idle"
    /\ IF r_writing
         THEN /\ r_fatal' = TRUE
              /\ UNCHANGED r_pc
         ELSE /\ r_pc' = [r_pc EXCEPT ![c] = "flag"]
              /\ UNCHANGED r_fatal
    /\ UNCHANGED <<r_slots, r_writing, r_slot, r_found>>
    /\ UNCHANGED <<searchVars, logsVars, storeErr, sibVars, axisVars>>

\* the writer toggles the flag
RegInsertFlag(c) ==
    /\ ~r_fatal
    /\ r_pc[c] = "flag"
    /\ r_writing' = ~r_writing
    /\ r_pc' = [r_pc EXCEPT ![c] = "find"]
    /\ UNCHANGED <<r_slots, r_slot, r_found, r_fatal>>
    /\ UNCHANGED <<searchVars, logsVars, storeErr, sibVars, axisVars>>

\* the writer finds the free slot for the new key
RegInsertFind(c) ==
    /\ ~r_fatal
    /\ r_pc[c] = "find"
    /\ r_slot' = [r_slot EXCEPT ![c] = FreeSlot]
    /\ r_pc' = [r_pc EXCEPT ![c] = "store"]
    /\ UNCHANGED <<r_slots, r_writing, r_found, r_fatal>>
    /\ UNCHANGED <<searchVars, logsVars, storeErr, sibVars, axisVars>>

\* the writer stores the key and the task into the slot it found
RegInsertStore(c) ==
    /\ ~r_fatal
    /\ r_pc[c] = "store"
    /\ r_slots' = [r_slots EXCEPT ![r_slot[c]] = c]
    /\ r_pc' = [r_pc EXCEPT ![c] = "unflag"]
    /\ UNCHANGED <<r_writing, r_slot, r_found, r_fatal>>
    /\ UNCHANGED <<searchVars, logsVars, storeErr, sibVars, axisVars>>

\* the assignment ends: "concurrent map writes" when the flag is no longer
\* set, else the flag is cleared and the insertion returns
RegInsertDone(c) ==
    /\ ~r_fatal
    /\ r_pc[c] = "unflag"
    /\ IF r_writing
         THEN /\ r_writing' = FALSE
              /\ r_pc' = [r_pc EXCEPT ![c] = "done"]
              /\ UNCHANGED r_fatal
         ELSE /\ r_fatal' = TRUE
              /\ UNCHANGED <<r_writing, r_pc>>
    /\ UNCHANGED <<r_slots, r_slot, r_found>>
    /\ UNCHANGED <<searchVars, logsVars, storeErr, sibVars, axisVars>>

\* task, ok := tasks[id] begins: "concurrent map read and map write" when
\* the flag is set
RegLookupCheck(g) ==
    /\ ~r_fatal
    /\ r_pc[g] = "idle"
    /\ IF r_writing
         THEN /\ r_fatal' = TRUE
              /\ UNCHANGED r_pc
         ELSE /\ r_pc' = [r_pc EXCEPT ![g] = "scan"]
              /\ UNCHANGED r_fatal
    /\ UNCHANGED <<r_slots, r_writing, r_slot, r_found>>
    /\ UNCHANGED <<searchVars, logsVars, storeErr, sibVars, axisVars>>

\* the access reads the slots for the id of a task whose insertion returned
RegLookupScan(g) ==
    /\ ~r_fatal
    /\ r_pc[g] = "scan"
    /\ \E id \in Creators :
          /\ r_pc[id] = "done"
          /\ r_found' = [r_found EXCEPT ![g] =
                            IF \E i \in DOMAIN r_slots : r_slots[i] = id
                              THEN "found" ELSE "missing"]
    /\ r_pc' = [r_pc EXCEPT ![g] = "idle"]
    /\ UNCHANGED <<r_slots, r_writing, r_slot, r_fatal>>
    /\ UNCHANGED <<searchVars, logsVars, storeErr, sibVars, axisVars>>

(***************************************************************************)
(* Specification                                                           *)
(***************************************************************************)
Run ==
    \/ RunStart \/ RunDial \/ RunSearchLog \/ RunMkdirAll \/ RunCreate
    \/ RunZipCreate \/ RunSetSavedPath \/ RunSetStartTime \/ RunLock
    \/ RunSetRunning \/ RunDeleteTask \/ RunCreateTask \/ RunUnlock
    \/ RunRecv \/ RunWrite \/ RunPreview \/ RunFlush
    \/ RunDeferZwClose \/ RunDeferFileClose \/ RunDeferConnClose
    \/ RunDeferClose \/ RunExit
    \/ RunClean \/ RunCleanPreview \/ RunCloseStopTime \/ RunCloseSetState
    \/ RunCloseUpdateTask \/ RunCloseUnlock \/ RunDoneTest \/ RunDoneEval

Abort(a) ==
    AbortTest(a) \/ AbortMakeCh(a) \/ AbortCancel(a) \/ AbortRecvEval(a)

LogsRun ==
    \/ LogsRunStart \/ LogsRunDial \/ LogsRunSearchLog
    \/ LogsCreateFileMkdirAll \/ LogsCreateFileCreate
    \/ LogsCreateFileZipCreate \/ LogsRunStartTask \/ LogsRunRecv
    \/ LogsRunWrite \/ LogsRunPreview \/ LogsRunFlush
    \/ LogsRunDeferZwClose \/ LogsRunDeferFileClose
    \/ LogsRunDeferConnClose \/ LogsRunDeferClose \/ LogsCloseRemoveAll
    \/ LogsCloseCancelTask \/ LogsCloseFinishTask \/ LogsRunExit

LogsAbort(a) == LogsAbortTest(a) \/ LogsAbortCancel(a)

Next ==
    \/ Run
    \/ \E a \in Aborters : Abort(a)
    \/ \E a \in Aborters : DoneRendezvous(a)
    \/ LogsRun
    \/ \E a \in Aborters : LogsAbort(a)

Spec == Init /\ [][Next]_vars

\* The Go scheduler runs every goroutine that can take a step, and the stream
\* answers every Recv(): no step that stays possible is postponed forever.
FairSpec ==
    /\ Spec
    /\ WF_vars(Run)
    /\ \A a \in Aborters : WF_vars(Abort(a))
    /\ \A a \in Aborters : WF_vars(DoneRendezvous(a))
    /\ WF_vars(LogsRun)
    /\ \A a \in Aborters : WF_vars(LogsAbort(a))

StoreFails ==
    \/ RunDeleteTaskFails \/ RunCreateTaskFails \/ RunPreviewFails
    \/ RunCleanPreviewFails \/ RunCloseUpdateTaskFails
    \/ LogsCloseCancelTaskFails \/ LogsCloseFinishTaskFails

\* The tasks with a Store whose calls can fail.
StoreFailNext == Next \/ StoreFails

StoreFailSpec == Init /\ [][StoreFailNext]_vars

RegistryNext ==
    \/ \E c \in Creators :
          \/ RegInsertCheck(c) \/ RegInsertFlag(c) \/ RegInsertFind(c)
          \/ RegInsertStore(c) \/ RegInsertDone(c)
    \/ \E g \in Pollers : RegLookupCheck(g) \/ RegLookupScan(g)

\* The registry used by the creators and the pollers, no task running.
RegistryInit ==
    /\ SearchInit(FALSE)
    /\ LogsInit(FALSE)
    /\ storeErr = FALSE
    /\ RegistryOf(TRUE)
    /\ SiblingsOf(FALSE)
    /\ AxisOf(FALSE)

RegistrySpec == RegistryInit /\ [][RegistryNext]_vars

(***************************************************************************)
(* run() and close() of two logsearch Tasks, as far as their archives go.  *)
(* A name below logsSavePath names a file or nothing; an open file is      *)
(* written through its handle, whatever its name names by then.            *)
(***************************************************************************)
\* os.MkdirAll and os.Create (task.go:144-155): the file named savedPath is
\* made, or cut to length 0 when the name names a file already; or either
\* call fails and run() returns with the error.
SibRunCreate(t) ==
    /\ s_tasks[t].pc = "create"
    /\ LET p == savedPath(s_tasks[t])
           old == s_fs.names[p]
           file == IF old = Nothing THEN t ELSE old
       IN \/ /\ s_fs' = [names |-> [s_fs.names EXCEPT ![p] = file],
                         data |-> [s_fs.data EXCEPT ![file] = << >>]]
             /\ s_tasks' = [s_tasks EXCEPT ![t].f = file, ![t].pc = "zipCreate"]
          \/ /\ s_tasks' = [s_tasks EXCEPT ![t].Error = "create",
                                           ![t].pc = "close"]
             /\ UNCHANGED s_fs
    /\ UNCHANGED <<searchVars, logsVars, storeErr, regVars, axisVars>>

\* zw.Create succeeds, t.SavedPath = savedPath and the task is Running
\* (task.go:159-175), or zw.Create fails and run() returns with the error.
SibRunSavedPath(t) ==
    /\ s_tasks[t].pc = "zipCreate"
    /\ \/ s_tasks' = [s_tasks EXCEPT ![t].SavedPath = savedPath(s_tasks[t]),
                                     ![t].State = StateRunning,
                                     ![t].pc = "recv"]
       \/ s_tasks' = [s_tasks EXCEPT ![t].Error = "zip", ![t].pc = "close"]
    /\ UNCHANGED <<s_fs, searchVars, logsVars, storeErr, regVars, axisVars>>

\* One batch of one line is received, written and flushed (task.go:183-207):
\* the line goes to the file the task has open.
SibRunWrite(t) ==
    /\ s_tasks[t].pc = "recv"
    /\ s_tasks[t].nWritten < MaxBatches
    /\ s_fs' = [s_fs EXCEPT !.data[s_tasks[t].f] = Append(@, t)]
    /\ s_tasks' = [s_tasks EXCEPT ![t].nWritten = @ + 1]
    /\ UNCHANGED <<searchVars, logsVars, storeErr, regVars, axisVars>>

\* stream.Recv() returns io.EOF or an error, that of an Abort()
\* included (task.go:183-189): run() returns.
SibRunRecvEnd(t) ==
    /\ s_tasks[t].pc = "recv"
    /\ \E e \in {"", "context canceled"} :
          s_tasks' = [s_tasks EXCEPT ![t].Error = e, ![t].pc = "close"]
    /\ UNCHANGED <<s_fs, searchVars, logsVars, storeErr, regVars, axisVars>>

\* close() (task.go:92-109) with clean() (task.go:111-121): a task with an
\* error removes what t.SavedPath names and is Canceled, another is Finished.
SibClose(t) ==
    /\ s_tasks[t].pc = "close"
    /\ IF s_tasks[t].Error # ""
       THEN /\ s_fs' = IF s_tasks[t].SavedPath # ""
                       THEN [s_fs EXCEPT !.names[s_tasks[t].SavedPath] = Nothing]
                       ELSE s_fs
            /\ s_tasks' = [s_tasks EXCEPT ![t].State = StateCanceled,
                                          ![t].pc = "exited"]
       ELSE /\ s_fs' = s_fs
            /\ s_tasks' = [s_tasks EXCEPT ![t].State = StateFinished,
                                          ![t].pc = "exited"]
    /\ UNCHANGED <<searchVars, logsVars, storeErr, regVars, axisVars>>

SibRun(t) ==
    \/ SibRunCreate(t) \/ SibRunSavedPath(t) \/ SibRunWrite(t)
    \/ SibRunRecvEnd(t) \/ SibClose(t)

SiblingNext == \E t \in SibTasks : SibRun(t)

\* Two tasks run side by side, nothing else.
SiblingInit ==
    /\ SearchInit(FALSE)
    /\ LogsInit(FALSE)
    /\ storeErr = FALSE
    /\ RegistryOf(FALSE)
    /\ SiblingsOf(TRUE)
    /\ AxisOf(FALSE)

SiblingSpec == SiblingInit /\ [][SiblingNext]_vars

(***************************************************************************)
(* Package matrix: Axis and chunk (axis.go).  A call returns a value, a    *)
(* record with panic = "", or panics: the record holds the message.        *)
(***************************************************************************)
Panic(msg) == [panic |-> msg]

Returned(r) == r.panic = ""

\* A call that neither returns nor panics: its loop never ends.
NeverReturns == [panic |-> "(never returns)"]

\* CreateAxis whose first check lets a single key pass.
CreateAxisOneKey(keys, valuesList) ==
    IF Len(keys) < 1
    THEN Panic("Keys length must be greater than 1")
    ELSE IF Len(valuesList) = 0
    THEN Panic("ValuesList length must be greater than 0")
    ELSE IF \E i \in DOMAIN valuesList : Len(keys) # Len(valuesList[i]) + 1
    THEN Panic("Keys length must be equal to Values length + 1")
    ELSE [panic |-> "", Keys |-> keys, ValuesList |-> valuesList]

\* CreateAxis checks the given parameters and uses them to build the Axis.
CreateAxis(keys, valuesList) ==
    IF Len(keys) <= 1
    THEN Panic("Keys length must be greater than 1")
    ELSE IF Len(valuesList) = 0
    THEN Panic("ValuesList length must be greater than 0")
    ELSE IF \E i \in DOMAIN valuesList : Len(keys) # Len(valuesList[i]) + 1
    THEN Panic("Keys length must be equal to Values length + 1")
    ELSE [panic |-> "", Keys |-> keys, ValuesList |-> valuesList]

\* CreateEmptyAxis: the keys startKey, endKey and valuesListLen columns <<0>>.
CreateEmptyAxis(startKey, endKey, valuesListLen) ==
    CreateAxis(<<startKey, endKey>>, [i \in 1 .. valuesListLen |-> <<0>>])

\* KeysRange(keys, startKey, endKey) returns (start, end, ok).  Its code is
\* not part of the sources at hand: any indices into keys, or ok = false.
KeysRange(keys) ==
    {[start |-> -1, end |-> -1, ok |-> FALSE]}
        \cup [start : 0 .. Len(keys), end : 0 .. Len(keys), ok : {TRUE}]

\* Axis.Range, with the result kr of KeysRange.  s[a:b] panics unless
\* 0 <= a <= b <= cap(s).
Range(axis, startKey, endKey, kr) ==
    IF ~kr.ok
    THEN CreateEmptyAxis(startKey, endKey, Len(axis.ValuesList))
    ELSE IF kr.start > kr.end \/ kr.start > kr.end - 1
    THEN Panic("slice bounds out of range")
    ELSE CreateAxis(SubSeq(axis.Keys, kr.start + 1, kr.end),
                    [i \in DOMAIN axis.ValuesList |->
                        SubSeq(axis.ValuesList[i], kr.start + 1, kr.end - 1)])

\* createChunk(keys, values)
createChunk(keys, values) ==
    IF Len(keys) <= 1
    THEN Panic("Keys length must be greater than 1")
    ELSE IF Len(keys) # Len(values) + 1
    THEN Panic("Keys length must be equal to Values length + 1")
    ELSE [panic |-> "", Keys |-> keys, Values |-> values]

\* equal(keyA, keyB), of the package, not part of the sources at hand: the
\* two keys are the same key.
equal(keyA, keyB) == keyA = keyB

\* CheckReduceOf(keys, newKeys), of the package, not part of the sources at
\* hand: newKeys are keys of `keys` in their order, the first and the last
\* one among them; otherwise the call panics.
CheckReduceOf(keys, newKeys) ==
    /\ Len(newKeys) >= 2
    /\ newKeys[1] = keys[1]
    /\ newKeys[Len(newKeys)] = keys[Len(keys)]
    /\ \E f \in [1 .. Len(newKeys) -> 1 .. Len(keys)] :
          /\ \A i \in 1 .. Len(newKeys) : keys[f[i]] = newKeys[i]
          /\ \A i, j \in 1 .. Len(newKeys) : i < j => f[i] < f[j]

\* The strategies: Strategy.CrossBorder(startKey, endKey) is a method of an
\* interface whose implementations are not part of the sources at hand.  A
\* strategy is a border key, or 0 for none; two keys lie across the border
\* when the border is above the first and not above the second.
Strategies == {0} \cup (2 .. MaxKeys)

CrossBorder(strategy, startKey, endKey) ==
    strategy # 0 /\ startKey < strategy /\ strategy <= endKey

\* The loop of chunk.Reduce (axis.go:175-182), from index i on; i and j
\* count from 0 as in the code.
RECURSIVE ReduceFrom(_, _, _, _, _, _)
ReduceFrom(keys, values, endKeys, i, j, newValues) ==
    IF i = Len(values)
    THEN [panic |-> "", Values |-> newValues]
    ELSE IF j >= Len(endKeys)
    THEN Panic("index out of range")
    ELSE LET next == IF equal(keys[i + 1], endKeys[j + 1]) THEN j + 1 ELSE j
         IN IF next >= Len(newValues)
            THEN Panic("index out of range")
            ELSE ReduceFrom(keys, values, endKeys, i + 1, next,
                     [newValues EXCEPT ![next + 1] = (@ + values[i + 1]) % Word])

\* chunk.Reduce generates new chunks based on the more sparse newKeys.
Reduce(c, newKeys) ==
    IF ~CheckReduceOf(c.Keys, newKeys)
    THEN Panic("CheckReduceOf")
    ELSE IF Len(c.Keys) = Len(newKeys)
    THEN createChunk(newKeys, c.Values)
    ELSE LET r == ReduceFrom(c.Keys, c.Values, Tail(newKeys), 0, 0,
                             [k \in 1 .. Len(newKeys) - 1 |-> 0])
         IN IF Returned(r) THEN createChunk(newKeys, r.Values) ELSE r

\* The loop of chunk.GetFocusRows (axis.go:198-204), from index i on.
RECURSIVE GetFocusRowsFrom(_, _, _, _, _, _)
GetFocusRowsFrom(values, threshold, i, start, bucketSum, count) ==
    IF i = Len(values)
    THEN IF Len(values) > start THEN count + 1 ELSE count
    ELSE LET value == values[i + 1]
             generate == (value >= threshold \/ bucketSum >= threshold)
                            /\ i > start
         IN GetFocusRowsFrom(values, threshold, i + 1,
                IF generate THEN i ELSE start,
                ((IF generate THEN 0 ELSE bucketSum) + value) % Word,
                IF generate THEN count + 1 ELSE count)

\* chunk.GetFocusRows estimates the number of rows generated by executing a
\* Focus with a specified threshold.
GetFocusRows(c, threshold) == GetFocusRowsFrom(c.Values, threshold, 0, 0, 0, 0)

\* The loop of chunk.Focus without the reset of bucketSum in generateBucket.
RECURSIVE FocusFromSumKept(_, _, _, _, _, _, _, _, _)
FocusFromSumKept(c, strategy, threshold, ratio, i, start, bucketSum, newKeys, newValues) ==
    IF i = Len(c.Values)
    THEN IF Len(c.Values) > start
         THEN createChunk(Append(newKeys, c.Keys[Len(c.Values) + 1]),
                          Append(newValues, bucketSum))
         ELSE createChunk(newKeys, newValues)
    ELSE LET value == c.Values[i + 1]
             generate ==
                 /\ \/ value >= threshold
                    \/ bucketSum >= threshold
                    \/ i - start >= ratio
                    \/ CrossBorder(strategy, c.Keys[start + 1], c.Keys[i + 1])
                 /\ i > start
         IN FocusFromSumKept(c, strategy, threshold, ratio, i + 1,
                IF generate THEN i ELSE start,
                (bucketSum + value) % Word,
                IF generate THEN Append(newKeys, c.Keys[i + 1]) ELSE newKeys,
                IF generate THEN Append(newValues, bucketSum) ELSE newValues)

chunkFocusSumKept(c, strategy, threshold, ratio, target) ==
    FocusFromSumKept(c, strategy, threshold, ratio, 0, 0, 0, <<c.Keys[1]>>, << >>)

\* The loop of chunk.Focus (axis.go:228-239), from index i on.
RECURSIVE FocusFrom(_, _, _, _, _, _, _, _, _)
FocusFrom(c, strategy, threshold, ratio, i, start, bucketSum, newKeys, newValues) ==
    IF i = Len(c.Values)
    THEN IF Len(c.Values) > start
         THEN createChunk(Append(newKeys, c.Keys[Len(c.Values) + 1]),
                          Append(newValues, bucketSum))
         ELSE createChunk(newKeys, newValues)
    ELSE LET value == c.Values[i + 1]
             generate ==
                 /\ \/ value >= threshold
                    \/ bucketSum >= threshold
                    \/ i - start >= ratio
                    \/ CrossBorder(strategy, c.Keys[start + 1], c.Keys[i + 1])
                 /\ i > start
         IN FocusFrom(c, strategy, threshold, ratio, i + 1,
                IF generate THEN i ELSE start,
                ((IF generate THEN 0 ELSE bucketSum) + value) % Word,
                IF generate THEN Append(newKeys, c.Keys[i + 1]) ELSE newKeys,
                IF generate THEN Append(newValues, bucketSum) ELSE newValues)

\* chunk.Focus: given a threshold, merge the rows with less traffic, and
\* merge the most `ratio` rows at a time.  target is the capacity the new
\* slices are made with.
chunkFocus(c, strategy, threshold, ratio, target) ==
    FocusFrom(c, strategy, threshold, ratio, 0, 0, 0, <<c.Keys[1]>>, << >>)

\* upperThreshold of chunk.Divide (axis.go:248-251): 1 and the values, added
\* as uint64.
RECURSIVE upperThresholdFrom(_, _, _)
upperThresholdFrom(values, i, upperThreshold) ==
    IF i = Len(values)
    THEN upperThreshold
    ELSE upperThresholdFrom(values, i + 1,
                            (upperThreshold + values[i + 1]) % Word)

\* The binary search of chunk.Divide (axis.go:255-262).  The loop has no
\* state but the two thresholds: when it has run Word * Word times it is at
\* thresholds it has been at before and never ends; the result is then -1.
RECURSIVE searchThreshold(_, _, _, _, _)
searchThreshold(c, targetFocusRows, lowerThreshold, upperThreshold, rounds) ==
    IF ~(lowerThreshold < upperThreshold)
    THEN lowerThreshold
    ELSE IF rounds = Word * Word
    THEN -1
    ELSE LET mid == ((lowerThreshold + upperThreshold) % Word) \div 2
         IN IF GetFocusRows(c, mid) > targetFocusRows
            THEN searchThreshold(c, targetFocusRows, (mid + 1) % Word,
                                 upperThreshold, rounds + 1)
            ELSE searchThreshold(c, targetFocusRows, lowerThreshold, mid,
                                 rounds + 1)

\* The threshold chunk.Divide ends its search with (axis.go:248-264).
divideThreshold(c, target) ==
    searchThreshold(c, (target * 2) \div 3, 1,
                    upperThresholdFrom(c.Values, 0, 1), 0)

\* a / b of Go for an int a >= 0 and b # 0: the quotient is cut towards 0.
IntDiv(a, b) == IF b > 0 THEN a \div b ELSE 0 - (a \div (0 - b))

\* chunk.Divide uses binary search to find a suitable threshold, which can
\* reduce the number of buckets of Axis to near the target.
chunkDivide(c, strategy, target) ==
    IF target >= Len(c.Values)
    THEN c
    ELSE LET threshold == divideThreshold(c, target)
             focusRows == GetFocusRows(c, threshold)
         IN IF threshold = -1
            THEN NeverReturns
            ELSE IF target - focusRows = 0
            THEN Panic("integer divide by zero")
            ELSE chunkFocus(c, strategy, threshold,
                            IntDiv(Len(c.Values), target - focusRows) + 1,
                            target)

\* The end of Axis.Focus and of Axis.Divide (axis.go:87-94, 106-113): the
\* columns after the first are reduced to the keys of newChunk.
reduceColumns(axis, newChunk) ==
    LET reduced == [i \in DOMAIN axis.ValuesList |->
                       IF i = 1
                       THEN newChunk
                       ELSE Reduce(createChunk(axis.Keys, axis.ValuesList[i]),
                                   newChunk.Keys)]
    IN IF \E i \in DOMAIN reduced : ~Returned(reduced[i])
       THEN reduced[CHOOSE i \in DOMAIN reduced : ~Returned(reduced[i])]
       ELSE CreateAxis(newChunk.Keys,
                       [i \in DOMAIN reduced |-> reduced[i].Values])

\* Axis.Focus uses the base column as the chunk for the Focus operation to
\* obtain the partitioning scheme, and uses this to reduce other columns.
AxisFocus(axis, strategy, threshold, ratio, target) ==
    IF target >= Len(axis.Keys) - 1
    THEN [panic |-> "", Keys |-> axis.Keys, ValuesList |-> axis.ValuesList]
    ELSE LET baseChunk == createChunk(axis.Keys, axis.ValuesList[1])
             newChunk == chunkFocus(baseChunk, strategy, threshold, ratio, target)
         IN IF ~Returned(baseChunk) THEN baseChunk
            ELSE IF ~Returned(newChunk) THEN newChunk
            ELSE reduceColumns(axis, newChunk)

\* Axis.Divide, in the same way with chunk.Divide.
AxisDivide(axis, strategy, target) ==
    IF target >= Len(axis.Keys) - 1
    THEN [panic |-> "", Keys |-> axis.Keys, ValuesList |-> axis.ValuesList]
    ELSE LET baseChunk == createChunk(axis.Keys, axis.ValuesList[1])
             newChunk == chunkDivide(baseChunk, strategy, target)
         IN IF ~Returned(baseChunk) THEN baseChunk
            ELSE IF ~Returned(newChunk) THEN newChunk
            ELSE reduceColumns(axis, newChunk)

\* The chunk of the base column of the Axis, as Axis.Focus makes it.
baseChunkOf(axis) == createChunk(axis.Keys, axis.ValuesList[1])

\* One call of an operation of the package: the call and what it returned.
\* CreateAxis is called with the first keys and the first values of the first
\* columns of the Axis, as many as the caller takes.
CallCreateAxis ==
    /\ m_call.op = "none"
    /\ \E nk \in 0 .. Len(m_axis.Keys), nc \in 0 .. Len(m_axis.ValuesList),
          nv \in 0 .. Len(m_axis.Keys) - 1 :
          LET keys == SubSeq(m_axis.Keys, 1, nk)
              valuesList == [i \in 1 .. nc |-> SubSeq(m_axis.ValuesList[i], 1, nv)]
          IN /\ m_call' = [op |-> "CreateAxis", keys |-> keys,
                           valuesList |-> valuesList]
             /\ m_ret' = CreateAxis(keys, valuesList)
    /\ UNCHANGED <<m_axis, searchVars, logsVars, storeErr, regVars, sibVars>>

CallCreateEmptyAxis ==
    /\ m_call.op = "none"
    /\ \E valuesListLen \in 0 .. MaxColumns :
          LET startKey == m_axis.Keys[1]
              endKey == m_axis.Keys[Len(m_axis.Keys)]
          IN /\ m_call' = [op |-> "CreateEmptyAxis", startKey |-> startKey,
                           endKey |-> endKey, valuesListLen |-> valuesListLen]
             /\ m_ret' = CreateEmptyAxis(startKey, endKey, valuesListLen)
    /\ UNCHANGED <<m_axis, searchVars, logsVars, storeErr, regVars, sibVars>>

CallRange ==
    /\ m_call.op = "none"
    /\ \E kr \in KeysRange(m_axis.Keys) :
          LET startKey == m_axis.Keys[1]
              endKey == m_axis.Keys[Len(m_axis.Keys)]
          IN /\ m_call' = [op |-> "Range", startKey |-> startKey,
                           endKey |-> endKey, KeysRange |-> kr]
             /\ m_ret' = Range(m_axis, startKey, endKey, kr)
    /\ UNCHANGED <<m_axis, searchVars, logsVars, storeErr, regVars, sibVars>>

CallAxisFocus ==
    /\ m_call.op = "none"
    /\ \E strategy \in Strategies, threshold \in 0 .. Word - 1,
          ratio \in 1 .. MaxRatio, target \in 0 .. MaxTarget :
          /\ m_call' = [op |-> "Axis.Focus", strategy |-> strategy,
                        threshold |-> threshold, ratio |-> ratio,
                        target |-> target]
          /\ m_ret' = AxisFocus(m_axis, strategy, threshold, ratio, target)
    /\ UNCHANGED <<m_axis, searchVars, logsVars, storeErr, regVars, sibVars>>

CallAxisDivide ==
    /\ m_call.op = "none"
    /\ \E strategy \in Strategies, target \in 0 .. MaxTarget :
          /\ m_call' = [op |-> "Axis.Divide", strategy |-> strategy,
                        target |-> target]
          /\ m_ret' = AxisDivide(m_axis, strategy, target)
    /\ UNCHANGED <<m_axis, searchVars, logsVars, storeErr, regVars, sibVars>>

CallReduce ==
    /\ m_call.op = "none"
    /\ \E newKeys \in KeyLists :
          /\ m_call' = [op |-> "chunk.Reduce", newKeys |-> newKeys]
          /\ m_ret' = Reduce(baseChunkOf(m_axis), newKeys)
    /\ UNCHANGED <<m_axis, searchVars, logsVars, storeErr, regVars, sibVars>>

CallChunkFocus ==
    /\ m_call.op = "none"
    /\ \E strategy \in Strategies, threshold \in 0 .. Word - 1,
          ratio \in 1 .. MaxRatio, target \in 0 .. MaxTarget :
          /\ m_call' = [op |-> "chunk.Focus", strategy |-> strategy,
                        threshold |-> threshold, ratio |-> ratio,
                        target |-> target]
          /\ m_ret' = chunkFocus(baseChunkOf(m_axis), strategy, threshold,
                                 ratio, target)
    /\ UNCHANGED <<m_axis, searchVars, logsVars, storeErr, regVars, sibVars>>

CallChunkDivide ==
    /\ m_call.op = "none"
    /\ \E strategy \in Strategies, target \in 0 .. MaxTarget :
          /\ m_call' = [op |-> "chunk.Divide", strategy |-> strategy,
                        target |-> target]
          /\ m_ret' = chunkDivide(baseChunkOf(m_axis), strategy, target)
    /\ UNCHANGED <<m_axis, searchVars, logsVars, storeErr, regVars, sibVars>>

AxisNext ==
    \/ CallCreateAxis \/ CallCreateEmptyAxis \/ CallRange
    \/ CallAxisFocus \/ CallAxisDivide
    \/ CallReduce \/ CallChunkFocus \/ CallChunkDivide

\* One Axis and one call on it, nothing else.
AxisInit ==
    /\ SearchInit(FALSE)
    /\ LogsInit(FALSE)
    /\ storeErr = FALSE
    /\ RegistryOf(FALSE)
    /\ SiblingsOf(FALSE)
    /\ AxisOf(TRUE)

AxisSpec == AxisInit /\ [][AxisNext]_vars

(***************************************************************************)
(* Properties                                                              *)
(***************************************************************************)
\* The state of the stored record, "none" when the Store holds no record.
StoreState == IF dbTasks = << >> THEN "none" ELSE dbTasks[Len(dbTasks)].State

\* C1: whenever Abort has returned nil, close() has run its body to the end
\* (run() has entered close() once, has left done(), and holds no lock), and
\* the record is terminal in memory and in the Store.
C1_AbortReturnsAfterClose ==
    \A a \in Aborters :
        apc[a] = "nil" =>
            /\ closeEntered = 1
            /\ pc \in {"return", "exited"}
            /\ ~mu
            /\ State \in Terminal
            /\ Len(dbTasks) = 1
            /\ StoreState = State

\* C1 witness: an Abort called on a Running task has returned nil.
C1_Witness ==
    \E a \in Aborters :
        apc[a] = "nil" /\ callState[a] = StateRunning /\ State = StateCanceled

\* C2 as claimed: whenever Abort has returned nil the record is Canceled, the
\* archive at SavedPath is removed and the preview rows are cleared.
C2_AbortNilMeansCanceled ==
    \A a \in Aborters :
        apc[a] = "nil" =>
            /\ State = StateCanceled
            /\ StoreState = StateCanceled
            /\ SavedPath # NoPath => ~fsFile.exists
            /\ dbPreview = << >>

\* C3 as claimed: a call of Abort that found the cancellation handle
\* installed eventually returns.
C3_AbortEventuallyReturns ==
    \A a \in Aborters : (apc[a] = "makeCh") ~> (apc[a] = "nil")

\* C4 as claimed: Abort called on a task whose record is already Finished or
\* Canceled returns the not-running error.
C4_AbortOnTerminalIsRejected ==
    \A a \in Aborters : callState[a] \in Terminal => apc[a] = "err"

ClosePcs ==
    {"clean", "cleanPreview", "closeStopTime", "closeLock", "closeSetState",
     "closeUpdate", "closeUnlock", "done", "doneEval", "doneSend"}

\* The positions of the run() of package logs inside close().
LogsClosePcs == {"removeAll", "cancelTask", "finishTask"}

\* C6: close() is entered at most once, only when run() has returned and as
\* the last of its deferred calls; a run() that has exited has entered and
\* left close() exactly once, whatever the exit path and also without a sink;
\* and when close() comes to its deferred done(), its body is over: the
\* record is terminal, the stop time set and the mutex released.  The same
\* counts hold for the run() of package logs, also when it ends in a panic.
C6_CloseRunsExactlyOnce ==
    /\ closeEntered \in {0, 1}
    /\ closeLeft \in {0, 1}
    /\ closeLeft <= closeEntered
    /\ closeEntered = 1 <=> pc \in ClosePcs \/ (pc \in {"return", "exited"} /\ defers = << >>)
    /\ closeEntered = 1 /\ closeLeft = 0 <=> pc \in ClosePcs
    /\ pc = "exited" => closeEntered = 1 /\ closeLeft = 1
    /\ pc \in {"done", "doneEval", "doneSend"} =>
          State \in Terminal /\ StopTime # 0 /\ ~mu
    /\ l_closeEntered \in {0, 1}
    /\ l_closeLeft \in {0, 1}
    /\ l_closeEntered = 1 /\ l_closeLeft = 0 <=> l_pc \in LogsClosePcs
    /\ l_closeLeft = 1 <=> l_pc \in {"return", "exited", "crashed"} /\ l_defers = << >>
    /\ l_pc \in {"exited", "crashed"} => l_closeEntered = 1 /\ l_closeLeft = 1

\* C6 witness: run() has exited after a failed dial, without a sink, and
\* close() has run.
C6_Witness ==
    /\ pc = "exited"
    /\ Error = "dial"
    /\ ~fsDir /\ ~fsFile.exists
    /\ closeLeft = 1

\* The changes of a record's state that the state machine allows.
AllowedSteps ==
    {<<StateQueued, StateRunning>>, <<StateRunning, StateFinished>>,
     <<StateRunning, StateCanceled>>, <<StateQueued, StateCanceled>>}

\* In the Store the Running record replaces the Queued one (delete, then
\* create), and a record the Store did not hold is first written as Running
\* or as Canceled.
AllowedStoreSteps ==
    AllowedSteps \cup {<<StateQueued, "none">>, <<"none", StateRunning>>,
                       <<"none", StateCanceled>>}

\* C7: the state of the record changes only along Queued->Running,
\* Running->Finished, Running->Canceled and Queued->Canceled, in memory and in
\* the Store; a terminal state never changes.
C7_StateStepsAllowed ==
    [][/\ State' # State => <<State, State'>> \in AllowedSteps
       /\ StoreState' # StoreState =>
             <<StoreState, StoreState'>> \in AllowedStoreSteps]_vars

\* C7 witness: the record went Queued -> Canceled without Running (it never
\* got a start time), in memory and in the Store.
C7_Witness ==
    /\ State = StateCanceled
    /\ StoreState = StateCanceled
    /\ StartTime = 0

\* C8 as claimed: while the record is Canceled, the path in SavedPath (when
\* set) does not exist and the Store holds no preview row of the task.
C8_CanceledIsClean ==
    State = StateCanceled =>
        /\ SavedPath # NoPath => ~fsFile.exists
        /\ dbPreview = << >>

\* C9 as claimed: a task that has ended with a recorded error has left no
\* archive file that it created.
C9_FailedTaskLeavesNoArchive ==
    (pc = "exited" /\ Error # "") => ~fsFile.exists

\* The lines of the messages ms, in order.
Lines(ms) == [i \in 1 .. Len(ms) |-> toLine(ms[i])]

Min(a, b) == IF a < b THEN a ELSE b

\* The first n elements of the sequence q.
Take(q, n) == SubSeq(q, 1, Min(n, Len(q)))

\* The lines written to the archive's entry so far: those that reached the
\* file and those the zip writer still buffers.
ArchiveLines == IF fsFile.exists THEN fsFile.lines \o zw.buf ELSE << >>
LogsArchiveLines ==
    IF l_fsFile.exists THEN l_fsFile.lines \o l_zipw.buf ELSE << >>

\* The number of written lines whose preview step has been made: all of
\* them, but the last one while run() stands between the write of a message
\* and the `if previewLogLinesCount < PreviewLogLinesLimit` for it.
Previewed == Len(ArchiveLines) - (IF pc = "preview" THEN 1 ELSE 0)
LogsPreviewed == Len(LogsArchiveLines) - (IF l_pc = "preview" THEN 1 ELSE 0)

\* C11: the Store never holds more than PreviewLogLinesLimit preview rows of
\* the task; the rows are always the first messages received, in the order
\* received; and while the task has not failed, the rows are exactly the
\* first min(K, n) lines written to the archive, n counting the lines whose
\* preview step was made: later messages reach the archive only.  Both
\* packages.
C11_PreviewIsCappedPrefix ==
    /\ Len(dbPreview) <= PreviewLogLinesLimit
    /\ dbPreview = Take(received, Len(dbPreview))
    /\ (Error = "" /\ fsFile.exists) =>
          Lines(dbPreview) =
              Take(ArchiveLines, Min(PreviewLogLinesLimit, Previewed))
    /\ Len(l_dbPreview) <= LogsPreviewLogLinesLimit
    /\ l_dbPreview = Take(l_received, Len(l_dbPreview))
    /\ (l_err = "" /\ l_fsFile.exists) =>
          Lines(l_dbPreview) =
              Take(LogsArchiveLines, Min(LogsPreviewLogLinesLimit, LogsPreviewed))

\* C11 witness: a task that did not fail has written more lines than the
\* cap, all flushed or closed into the file, and the Store holds exactly the
\* cap's number of rows.
C11_Witness ==
    /\ Error = ""
    /\ State = StateFinished
    /\ Len(fsFile.lines) > PreviewLogLinesLimit
    /\ Len(dbPreview) = PreviewLogLinesLimit

\* The positions of run() before it returns, in each package.
BodyPcs ==
    {"dial", "search", "mkdir", "create", "entry", "savedPath", "startTime",
     "lock", "setRunning", "dbDelete", "dbCreate", "unlock", "recv", "write",
     "preview", "flush"}
LogsBodyPcs ==
    {"dial", "search", "mkdir", "create", "entry", "startTask", "recv",
     "write", "preview", "flush"}

LogsStoreState ==
    IF l_dbTasks = << >> THEN "none" ELSE l_dbTasks[Len(l_dbTasks)].State

\* C12 as claimed: a step of run() that ends it, other than the receive of
\* the end of the stream, has set the record's error; once the error is set
\* run() makes no further step of its body (no retry); and a run() that has
\* ended with an error leaves the record Canceled (in package logs, when the
\* Store holds a record of the task).  Both packages.
C12_FailureSetsErrorAndCancels ==
    [][/\ (pc \in BodyPcs \ {"recv"} /\ pc' = "return") => Error' # ""
       /\ Error # "" => pc' \notin BodyPcs
       /\ (pc' = "exited" /\ Error' # "") =>
             State' = StateCanceled /\ StoreState' = StateCanceled
       /\ (l_pc \in LogsBodyPcs \ {"recv"} /\ l_pc' = "return") => l_err' # ""
       /\ l_err # "" => l_pc' \notin LogsBodyPcs
       /\ (l_pc' \in {"exited", "crashed"} /\ l_err' # "") =>
             LogsStoreState' \in {StateCanceled, "none"}]_vars

\* C13 as claimed: a run() that has ended after a Store call made for its
\* task failed has a non-empty error and a Canceled record. Both packages.
C13_StoreFailureBecomesTaskError ==
    /\ (storeErr /\ pc = "exited") => Error # "" /\ State = StateCanceled
    /\ (storeErr /\ l_pc \in {"exited", "crashed"}) => l_err # ""

\* The errors of the steps that come before the record is made Running.
SetupErrors == {"dial", "search", "mkdir", "create", "entry"}

\* C14: the record is made Running, in memory and in the Store, only in a
\* step taken with the connection open, the stream open (run() past
\* SearchLog), the directory and the file made, and the archive's entry
\* created; and a record whose task failed in the dial, the stream open or
\* the making of the sink, or was cancelled before these were done, is
\* Queued or Canceled and never Running, in memory and in the Store.  Both
\* packages.
C14_RunningOnlyAfterSetup ==
    [][/\ (State' = StateRunning /\ State # StateRunning) =>
             /\ pc = "setRunning"
             /\ Error = ""
             /\ connOpen /\ fsDir /\ fsFile.exists /\ fOpen /\ zw.open
             /\ zw.entries = <<logFilename>>
       /\ (StoreState' = StateRunning /\ StoreState # StateRunning) =>
             /\ pc = "dbCreate"
             /\ Error = ""
             /\ connOpen /\ fsDir /\ fsFile.exists /\ fOpen /\ zw.open
             /\ zw.entries = <<logFilename>>
       /\ (Error' \in SetupErrors \/ (Error' # "" /\ StartTime' = 0)) =>
             /\ State' \in {StateQueued, StateCanceled}
             /\ StoreState' \in {StateQueued, "none", StateCanceled}
       /\ (LogsStoreState' = StateRunning /\ LogsStoreState # StateRunning) =>
             /\ l_pc = "startTask"
             /\ l_err = ""
             /\ l_connOpen /\ l_fsDir /\ l_fsFile.exists /\ l_fOpen
             /\ l_zipw.open /\ l_zipw.entries = <<logFilename>>
       /\ l_err' \in SetupErrors \cup {"startTask"} =>
             LogsStoreState' \in {StateQueued, "none", StateCanceled}]_vars

\* C14 witness: the making of the archive's entry failed, run() has ended,
\* and the record is Canceled in memory and in the Store without a start
\* time.
C14_Witness ==
    /\ pc = "exited"
    /\ Error = "entry"
    /\ State = StateCanceled
    /\ StoreState = StateCanceled
    /\ StartTime = 0

\* The errors of the making of the sink.
SinkErrors == {"mkdir", "create", "entry"}

\* C15 as claimed: when the making of the directory, the file or the entry
\* has failed, the task has no connection to the component.
C15_SinkFailureWithoutDial ==
    /\ Error \in SinkErrors => ~connOpen
    /\ l_err \in SinkErrors => ~l_connOpen

\* The call c is among the deferred calls ds still to be made.
Deferred(ds, c) == \E i \in DOMAIN ds : ds[i] = c

\* C15 amended: run() dials and opens the stream first and makes the sink
\* after them, so every step of the making of the sink is taken with the
\* connection open; when such a step fails the connection stays open until
\* the deferred conn.Close() is made, which is before close() is entered.  A
\* failed dial or stream open leaves no directory and no file.  Both
\* packages.
C15_DialBeforeSink ==
    /\ pc \in {"mkdir", "create", "entry"} => connOpen
    /\ (Error \in SinkErrors /\ Deferred(defers, "conn.Close")) => connOpen
    /\ (Error \in SinkErrors /\ closeEntered = 1) => ~connOpen
    /\ Error \in {"dial", "search"} => ~fsDir /\ ~fsFile.exists
    /\ l_pc \in {"mkdir", "create", "entry"} => l_connOpen
    /\ (l_err \in SinkErrors /\ Deferred(l_defers, "conn.Close")) => l_connOpen
    /\ (l_err \in SinkErrors /\ l_closeEntered = 1) => ~l_connOpen
    /\ l_err \in {"dial", "search"} => ~l_fsDir /\ ~l_fsFile.exists

\* C15 witness: the making of the directory failed after the dial, and
\* run() has ended with the connection closed.
C15_Witness ==
    /\ pc = "exited"
    /\ Error = "mkdir"
    /\ ~connOpen
    /\ ~fsDir

\* The dial or the stream open of the logsearch task has failed: the error
\* of either, or the cancellation met by SearchLog (before the start time).
NetSetupFailed ==
    \/ Error \in {"dial", "search"}
    \/ Error = "context canceled" /\ StartTime = 0

\* C16: after a failed dial or stream open the task has made no directory
\* and no file, its SavedPath is empty and the Store holds no preview row of
\* it; and when its run() has ended the record is Canceled, in memory and in
\* the Store, with the error.  The same for package logs.
C16_NetFailureLeavesNothing ==
    /\ NetSetupFailed =>
          /\ ~fsDir /\ ~fsFile.exists /\ ~fOpen
          /\ SavedPath = NoPath
          /\ dbPreview = << >>
          /\ pc \notin BodyPcs
    /\ (NetSetupFailed /\ pc = "exited") =>
          /\ State = StateCanceled
          /\ StoreState = StateCanceled
          /\ dbTasks[Len(dbTasks)].Error = Error
    /\ l_err \in {"dial", "search"} =>
          /\ ~l_fsDir /\ ~l_fsFile.exists /\ ~l_fOpen
          /\ l_savedPath = NoPath
          /\ l_dbPreview = << >>
          /\ l_pc \notin LogsBodyPcs
    /\ (l_err \in {"dial", "search"} /\ l_pc = "exited") =>
          LogsStoreState \in {StateCanceled, "none"}

\* C16 witness: SearchLog failed, run() has ended, the record is Canceled
\* and nothing was made.
C16_Witness ==
    /\ pc = "exited"
    /\ Error = "search"
    /\ State = StateCanceled
    /\ ~fsDir

(***************************************************************************)
(* The mutex of the task.                                                  *)
(***************************************************************************)
\* C17: the state of the record is changed, in memory and in the Store, only
\* by steps taken with the task's mutex held; each critical section that
\* changes the state in memory writes it to the Store before the mutex is
\* released; so whenever the mutex is free the record the Store holds has the
\* state the task has in memory.
C17_StateWrittenUnderMutex ==
    [][/\ State' # State => mu /\ mu'
       /\ dbTasks' # dbTasks => mu /\ mu'
       /\ (~mu' /\ dbTasks' # << >>) => StoreState' = State'
       /\ (mu /\ ~mu') => dbTasks' # << >> /\ StoreState' = State']_vars

\* C17 witness: the mutex is free after the critical section of run(), and
\* the record is Running in memory and in the Store.
C17_Witness ==
    /\ ~mu
    /\ pc = "recv"
    /\ State = StateRunning
    /\ StoreState = StateRunning

\* C18 as claimed: Error, StartTime, StopTime and SavedPath are written only
\* by steps taken with the task's mutex held, so with the mutex free a
\* Running record has no error and no stop time.
C18_FieldsWrittenUnderMutex ==
    [][/\ <<Error, StartTime, StopTime, SavedPath>>' #
              <<Error, StartTime, StopTime, SavedPath>> => mu
       /\ (~mu' /\ State' = StateRunning) => Error' = "" /\ StopTime' = 0]_vars

\* C20: the Store holds at most one record of the task in every state; the
\* removal of the stale record and the insertion of the Running record are
\* made with the mutex held, the removal first, and the mutex is not
\* released between them.
C20_AtMostOneRecord ==
    [][/\ Len(dbTasks') <= 1
       /\ (State' = StateRunning /\ dbTasks' # dbTasks) =>
             /\ mu /\ mu'
             /\ \/ pc = "dbDelete" /\ dbTasks' = << >> /\ pc' = "dbCreate"
                \/ pc = "dbCreate" /\ dbTasks = << >> /\ dbTasks' = <<TaskModel>>
       /\ pc \in {"setRunning", "dbDelete", "dbCreate"} => mu /\ mu']_vars

\* C20 witness: the Store held the Queued record of the task, run() has made
\* the transition to Running, and the Store holds the one Running record.
C20_Witness ==
    /\ pc = "recv"
    /\ ~mu
    /\ Len(dbTasks) = 1
    /\ StoreState = StateRunning
    /\ \E a \in Aborters : callState[a] = StateQueued

(***************************************************************************)
(* The registry.                                                           *)
(***************************************************************************)
\* C19 as claimed: whatever the interleaving of the insertions and the
\* lookups, the process goes on, every task whose insertion has returned is
\* in the map, and every lookup of such a task finds it.
C19_RegistryKeepsInsertions ==
    /\ ~r_fatal
    /\ \A c \in Creators :
          r_pc[c] = "done" => \E i \in DOMAIN r_slots : r_slots[i] = c
    /\ \A g \in Pollers : r_found[g] # "missing"

(***************************************************************************)
(* Cancellation, close() and the loop of run().                            *)
(***************************************************************************)
\* C21: once ctx is cancelled, the SearchLog or Recv that run() is in or
\* comes to next returns the cancellation error and run() returns; and
\* run() then always gets into close() and the record gets a terminal state,
\* in memory and in the Store: it does not stay Running.
C21_CancelLeadsToTerminal ==
    /\ [][(ctxDone /\ pc \in {"search", "recv"} /\ pc' # pc) =>
             pc' = "return" /\ Error' = "context canceled"]_vars
    /\ ctxDone ~> (closeEntered = 1 /\ State \in Terminal
                   /\ StoreState \in Terminal)

\* C21 witness: a Running task was cancelled, its Recv returned the
\* cancellation error, and the record is Canceled.
C21_Witness ==
    /\ ctxDone
    /\ StartTime = 1
    /\ Error = "context canceled"
    /\ State = StateCanceled
    /\ StoreState = StateCanceled

\* C22: once the body of close() is over, the record is Canceled exactly
\* when its error is not empty and Finished exactly when it is empty, its
\* stop time is set, and the Store holds the record as it is in memory.  In
\* package logs the record of the Store, when there is one, is Canceled
\* exactly when t.err is set and Finished exactly when it is not.
C22_CloseSetsStateByError ==
    /\ (pc \in {"done", "doneEval", "doneSend"} \/ closeLeft = 1) =>
          /\ State = StateCanceled <=> Error # ""
          /\ State = StateFinished <=> Error = ""
          /\ StopTime # 0
          /\ dbTasks = <<TaskModel>>
    /\ (l_closeLeft = 1 /\ l_dbTasks # << >>) =>
          /\ LogsStoreState = StateCanceled <=> l_err # ""
          /\ LogsStoreState = StateFinished <=> l_err = ""

\* C22 witness: close() is over for a task whose write failed: Canceled,
\* with a stop time, and stored.
C22_Witness ==
    /\ closeLeft = 1
    /\ Error = "write"
    /\ State = StateCanceled
    /\ StopTime = 1
    /\ StoreState = StateCanceled

\* C23 as claimed: run() comes to a Recv only from the start of the loop or
\* from a flush; a batch, also an empty one, leads to the flush of the
\* writer of the task's sink; a flush that succeeds leaves nothing buffered
\* and goes on to the next Recv; a flush that fails sets the error and
\* returns.  Both packages.
C23_FlushAfterEveryBatch ==
    [][/\ (pc' = "recv" /\ pc # "recv") => pc \in {"unlock", "flush"}
       /\ (pc = "recv" /\ nRecv' # nRecv) => pc' \in {"write", "flush"}
       /\ (pc = "preview" /\ pc' # pc) => pc' \in {"write", "flush"}
       /\ (pc = "flush" /\ pc' # pc) =>
             \/ /\ pc' = "recv"
                /\ Error' = Error
                /\ zw'.buf = << >>
                /\ fsFile'.lines = fsFile.lines \o zw.buf
             \/ /\ pc' = "return"
                /\ Error' = "flush"
       /\ (l_pc' = "recv" /\ l_pc # "recv") => l_pc \in {"startTask", "flush"}
       /\ (l_pc = "recv" /\ l_nRecv' # l_nRecv) => l_pc' \in {"write", "flush"}
       /\ (l_pc = "flush" /\ l_pc' # l_pc) =>
             \/ /\ l_pc' = "recv"
                /\ l_err' = l_err
                /\ l_zipw'.buf = << >>
                /\ l_fsFile'.lines = l_fsFile.lines \o l_zipw.buf
             \/ /\ l_pc' = "return"
                /\ l_err' = "flush"]_vars

\* C24 as claimed: in package logs the flush of a batch finds t.zw set (the
\* writer CreateFile made), run() never panics, and it ends by returning,
\* after the end of the stream with t.err not set and the record Finished.
C24_LogsFlushHasWriter ==
    /\ l_pc = "flush" => l_zw # "nil"
    /\ ~l_panic
    /\ l_pc # "crashed"

\* C25 as claimed: when both callers of Abort have made their channel for a
\* task that is Running and not yet in close(), both calls return nil in the
\* end; and a done() that sends on a channel always gets its receiver.
C25_BothAbortsReturn ==
    /\ ((\A a \in Aborters : apc[a] \in {"cancel", "recvEval", "wait"})
           /\ State = StateRunning /\ closeEntered = 0)
          ~> (\A a \in Aborters : apc[a] = "nil")
    /\ (pc = "doneSend") ~> (pc = "return")

\* C26: the end of one task never touches the archive of another: a task
\* that is Running or Finished has its archive under the name t.SavedPath,
\* holding the lines the task itself has written and nothing else, whatever
\* the other task does.
C26_SiblingArchivesKept ==
    \A t \in SibTasks :
        (s_tasks[t].pc # "off" /\ s_tasks[t].State \in {StateRunning, StateFinished}) =>
            LET file == s_fs.names[s_tasks[t].SavedPath]
            IN /\ file # Nothing
               /\ s_fs.data[file] = [i \in 1 .. s_tasks[t].nWritten |-> t]

\* C27: in package logsearch the deferred calls of run() run in the order
\* zw.Close, f.Close, conn.Close, close(): the zip writer is closed while the
\* file is open, the file while the connection is open, the connection
\* before close() is entered; so a record that reads Finished belongs to an
\* archive that is closed and holds every line received, and clean() removes
\* the archive only after its file is closed.
C27_DeferredOrderStep ==
    /\ (zw.open /\ ~zw'.open) => (fOpen /\ connOpen /\ closeEntered = 0)
    /\ (fOpen /\ ~fOpen') => (~zw.open /\ connOpen /\ closeEntered = 0)
    /\ (connOpen /\ ~connOpen') => (~zw.open /\ ~fOpen /\ closeEntered = 0)
    /\ (closeEntered' # closeEntered) => (~zw.open /\ ~fOpen /\ ~connOpen)
    /\ (StoreState' = StateFinished) =>
          (fsFile'.exists /\ fsFile'.closed /\ ~fOpen' /\ ~zw'.open
             /\ fsFile'.lines = Lines(received'))
    /\ (pc' = "clean") => (~fOpen' /\ ~zw'.open)

WellFormed(keys, valuesList) ==
    /\ Len(keys) >= 2
    /\ Len(valuesList) >= 1
    /\ \A i \in DOMAIN valuesList : Len(keys) = Len(valuesList[i]) + 1

\* C28: every Axis that CreateAxis, CreateEmptyAxis, Range, Focus or Divide
\* returns has at least 2 keys and at least one column, and each column has
\* one value less than there are keys; and CreateAxis called with arguments
\* of another shape panics and returns nothing.
C28_AxisWellFormed ==
    /\ (/\ m_call.op \in {"CreateAxis", "CreateEmptyAxis", "Range",
                          "Axis.Focus", "Axis.Divide"}
        /\ Returned(m_ret)) => WellFormed(m_ret.Keys, m_ret.ValuesList)
    /\ (m_call.op = "CreateAxis"
          /\ ~WellFormed(m_call.keys, m_call.valuesList)) => ~Returned(m_ret)

C28_Witness ==
    /\ m_call.op = "Range"
    /\ Returned(m_ret)
    /\ Len(m_ret.Keys) = 3
    /\ Len(m_axis.Keys) = 4
    /\ Len(m_ret.ValuesList) = 2

\* newKeys are keys of `keys`, in their order, the first and the last key of
\* `keys` among them.
SubsequenceWithEnds(newKeys, keys) ==
    /\ Len(newKeys) >= 2
    /\ newKeys[1] = keys[1]
    /\ newKeys[Len(newKeys)] = keys[Len(keys)]
    /\ \A k \in 1 .. Len(newKeys) : \E i \in 1 .. Len(keys) : keys[i] = newKeys[k]
    /\ \A k \in 1 .. Len(newKeys) - 1 : newKeys[k] < newKeys[k + 1]

\* The buckets of a chunk with the keys `keys` that lie between two keys.
Covered(keys, from, to) ==
    {i \in 1 .. Len(keys) - 1 : from <= keys[i] /\ keys[i + 1] <= to}

\* The sum, as uint64, of the values of the buckets S.
RECURSIVE SumOf(_, _)
SumOf(values, S) ==
    IF S = {}
    THEN 0
    ELSE LET i == CHOOSE x \in S : TRUE
         IN (values[i] + SumOf(values, S \ {i})) % Word

C30_DivideReturns ==
    (/\ m_call.op = "chunk.Divide"
     /\ 1 <= m_call.target
     /\ m_call.target < Len(m_axis.ValuesList[1])) =>
        LET c == baseChunkOf(m_axis)
            threshold == divideThreshold(c, m_call.target)
        IN /\ Returned(m_ret)
           /\ threshold # -1
           /\ GetFocusRows(c, threshold) <= (m_call.target * 2) \div 3
           /\ m_call.target - GetFocusRows(c, threshold) > 0

=============================================================================
